---- MODULE Spec2Model ----
(***************************************************************************)
(* The reconciliation core of akashi: scripts/reconcile_qdrant.py compares  *)
(* the current decisions of Postgres with the point ids of Qdrant and, with *)
(* --repair, enqueues the missing ids into search_outbox.                   *)
(*                                                                          *)
(* Stores are tables: decisions and qdrant are sets of rows, search_outbox  *)
(* is a bag of rows (a table holds what is written to it; uniqueness is a   *)
(* property of the statements, checked below, not of the representation).   *)
(* scripts/verify_exit_criteria.py, the durability gate, runs five checks,  *)
(* the last of them by running the reconciler as a child process.           *)
(* The outbox consumer and the write path are not part of the scripts; they *)
(* are modelled from the data model of the specification.                   *)
(***************************************************************************)
EXTENDS Integers, Sequences, FiniteSets, Bags, TLC

\* ---------------------------------------------------------------- bounds
NumIds == 4
MaxEnvSteps == 2
\* scripts/reconcile_qdrant.py:120 has batch_size = 500 and :83 has
\* "limit": 1000; both are scaled down so that runs with several batches and
\* several pages happen among NumIds ids.
batch_size == 2
limit == 2
\* The coroutines that call get_token of one TokenManager.
NumCoroutines == 3

\* ------------------------------------------------------------- universes
NULL == 0
\* subprocess.returncode of a process that has not exited
RUNNING == -1
Ids == 1..NumIds
Orgs == {1, 2}
\* Python's None where 0 is a value
None == -2
\* Standalone reconciler processes, and the one the gate runs as its child.
Runs == {"r1", "r2"}
Child == "gc"
Procs == Runs \cup {Child}
OrgOf(id) == IF id % 2 = 1 THEN 1 ELSE 2

VARIABLES
  decisions,          \* table decisions: rows [id, org_id, valid_to, embedding]
  orphans,            \* decisions without run, alternatives and evidence without
                      \* decision: the three counts of the gate's orphan query
  agent_events,       \* count of the agent_events older than RETAIN_DAYS
  qdrant,             \* collection: points [id, org_id]
  search_outbox,      \* table search_outbox: bag of rows
  silent,             \* the stores that do not answer a call: subset of
                      \* {"primary", "index"}
  QDRANT_URL,         \* the value of the environment variable, parsed
  now,                \* database clock
  pc,                 \* per run: position in main()
  args,               \* per run: [repair, org_id, database_url, qdrant_url]
  pg_map,             \* per run: dict decision_id -> org_id
  ids,                \* per run: qdrant_scroll_ids' accumulator
  offset,             \* per run: scroll continuation token
  missing_in_qdrant,  \* per run: sorted list
  extra_in_qdrant,    \* per run: sorted list
  i,                  \* per run: enqueue_repairs' batch start index
  stdout,             \* per run: what main() printed
  base_url,           \* per run: what qdrant_rest_base returned
  stderr,             \* per run: what main() and the interpreter wrote to stderr
  returncode,         \* per run: process exit status (RUNNING until it exits)
  psql,               \* per run: effect of its INSERT statements so far
  settled,            \* per run: the ids that were current, derivable and
                      \* indexed when the process started (history)
  steps,              \* steps the consumer and the clock have taken
  gate_pc,            \* gate: position in main()
  env,                \* gate: its environment, read by main()
  checks,             \* gate: the list of check results so far
  gate_stdout,        \* gate: what main() printed
  gate_stderr,        \* gate: what main() printed to stderr
  gate_returncode,    \* gate: process exit status (RUNNING until it exits)
  handler,            \* LangChain handler: its class and its constructor arguments
  _pending,           \* handler: dict run_id -> AgentAction
  client,             \* the calls made to client.check and to client.trace
  logged,             \* the records logger.debug has written
  escaped,            \* the exceptions that left a callback towards its caller
  awaiting,           \* async handler: the coroutines suspended in a client call
  calls,              \* the callbacks and the wrappers invoked so far
  last,               \* the latest callback and its arguments (history)
  frame,              \* the call of a wrapper in progress: its position, its
                      \* locals and the calls it has made, in order
  tm,                 \* the TokenManager: _token, _expires_at and _lock
  tasks               \* per coroutine: its position in get_token, what it
                      \* returned, and what it saw and did (history)

vars == <<decisions, orphans, agent_events, qdrant, search_outbox, silent, QDRANT_URL, now, pc, args, base_url, pg_map, ids, offset,
          missing_in_qdrant, extra_in_qdrant, i, stdout, stderr, returncode, psql, settled, steps,
          gate_pc, env, checks, gate_stdout, gate_stderr, gate_returncode,
          handler, _pending, client, logged, escaped, awaiting, calls, last, frame, tm, tasks>>

primary == <<decisions, orphans, agent_events>>
auth == <<tm, tasks>>
wrappers == <<frame, auth>>
sdk == <<handler, _pending, client, logged, escaped, awaiting, calls, last, wrappers>>
\* What no script changes: the stores' availability, the environment, and
\* the state of the SDK, which lives in the agents' processes.
setting == <<silent, QDRANT_URL, sdk>>
stores == <<primary, qdrant, search_outbox, setting>>
locals == <<pg_map, ids, offset, missing_in_qdrant, extra_in_qdrant, i>>
recon == <<pc, args, base_url, locals, stdout, stderr, returncode, psql, settled>>
gate == <<gate_pc, env, checks, gate_stdout, gate_stderr, gate_returncode>>
procs == <<recon, gate>>
scripts == <<primary, qdrant, search_outbox, silent, QDRANT_URL, now, steps, procs>>

\* ---------------------------------------------------------------- helpers
Min(a, b) == IF a < b THEN a ELSE b

SetMin(S) == CHOOSE x \in S : \A y \in S : x <= y

\* Python's sorted() on a set of ids: the ascending list.
RECURSIVE sorted(_)
sorted(S) == IF S = {} THEN <<>> ELSE <<SetMin(S)>> \o sorted(S \ {SetMin(S)})

Range(s) == {s[k] : k \in 1..Len(s)}

\* The slice taken from one element early: s[lo - 1 : hi] when lo > 0.
Slice_Overlapping(s, lo, hi) == SubSeq(s, IF lo > 0 THEN lo ELSE 1, Min(hi, Len(s)))

\* The slice one off: missing[lo + 1 : hi].
Slice_SkipsFirst(s, lo, hi) == SubSeq(s, lo + 2, Min(hi, Len(s)))

\* missing[lo : hi] with Python's 0-based, end-exclusive, clamped slice.
Slice(s, lo, hi) == SubSeq(s, lo + 1, Min(hi, Len(s)))

\* ----------------------------------------------------------------- stores
\* The decisions table holds one row per id (primary key); an id that is not
\* current or has no embedding yet is still a row of the table.
DecisionRow(id, current, embedded) ==
  [id |-> id, org_id |-> OrgOf(id),
   valid_to |-> IF current THEN NULL ELSE 1, embedding |-> embedded]

\* Initial tables: any set P of current, embedded decisions; of the others the
\* even ids are superseded and the odd ids still wait for their embedding.
DecisionsWith(P) ==
  {DecisionRow(id, id \in P \/ id % 2 = 1, id \in P \/ id % 2 = 0) : id \in Ids}

Point(id) == [id |-> id, org_id |-> OrgOf(id)]

Key(r) == <<r.decision_id, r.operation>>

rows == BagToSet(search_outbox)

\* Column defaults of search_outbox for a freshly inserted row.
NewRow(id, org, op, t) ==
  [decision_id |-> id, org_id |-> org, operation |-> op,
   created_at |-> t, attempts |-> 0, locked_until |-> NULL]

\* The update counts itself as an attempt: attempts = attempts + 1.
Refreshed_CountsAttempt(r, t) == [r EXCEPT !.created_at = t, !.attempts = @ + 1, !.locked_until = NULL]

\* The update forgets attempts: SET created_at = now(), locked_until = NULL.
Refreshed_KeepAttempts(r, t) == [r EXCEPT !.created_at = t, !.locked_until = NULL]

\* ON CONFLICT ... DO UPDATE SET created_at = now(), attempts = 0,
\* locked_until = NULL
Refreshed(r, t) == [r EXCEPT !.created_at = t, !.attempts = 0, !.locked_until = NULL]

\* A plain INSERT into a table without the unique index.
InsertOnConflict_NoConflict(box, v, t) ==
  box (+) SetToBag({NewRow(v.decision_id, v.org_id, v.operation, t)})

\* The update without its row match: on a conflict every row is reset.
InsertOnConflict_TableWide(box, v, t) ==
  IF \E r \in BagToSet(box) : Key(r) = <<v.decision_id, v.operation>>
    THEN BagOfAll(LAMBDA r : Refreshed(r, t), box)
    ELSE box (+) SetToBag({NewRow(v.decision_id, v.org_id, v.operation, t)})

\* ON CONFLICT (decision_id, operation) DO NOTHING: an entry that is there
\* is left as it is.
InsertOnConflict_DoNothing(box, v, t) ==
  IF \E r \in BagToSet(box) : Key(r) = <<v.decision_id, v.operation>>
    THEN box
    ELSE box (+) SetToBag({NewRow(v.decision_id, v.org_id, v.operation, t)})

\* INSERT INTO search_outbox (decision_id, org_id, operation) VALUES (v)
\* ON CONFLICT (decision_id, operation) DO UPDATE SET ...   -- one VALUES row
InsertOnConflict(box, v, t) ==
  LET hit(r) == Key(r) = <<v.decision_id, v.operation>>
      upd(r) == IF hit(r) THEN Refreshed(r, t) ELSE r
  IN  IF \E r \in BagToSet(box) : hit(r)
        THEN BagOfAll(upd, box)
        ELSE box (+) SetToBag({NewRow(v.decision_id, v.org_id, v.operation, t)})

\* What the statement with the VALUES list vs does to box, added to the
\* effect e of the process's earlier statements: the ids it inserts a row for
\* and the rows it finds in conflict and updates.
Effect(e, box, vs) ==
  LET hits(v) == {x \in BagToSet(box) : Key(x) = <<v.decision_id, v.operation>>}
  IN  [inserted |-> e.inserted \cup
                      {vs[k].decision_id : k \in {j \in 1..Len(vs) : hits(vs[j]) = {}}},
       updated  |-> e.updated \cup UNION {hits(vs[k]) : k \in 1..Len(vs)}]

\* One statement with the VALUES list vs, applied in list order.
RECURSIVE InsertAll(_, _, _)
InsertAll(box, vs, t) ==
  IF vs = <<>> THEN box
  ELSE InsertAll(InsertOnConflict(box, Head(vs), t), Tail(vs), t)

\* ---------------------------------------------------- reconcile_qdrant.py
\* Qdrant's REST port and its gRPC port.
RestPort == 6333
GrpcPort == 6334

\* What urlparse makes of a URL "scheme://host:port": its scheme ("" when
\* the text has none), its hostname ("" when the authority names none) and
\* its port (None when the authority has none).
Url(scheme, hostname, port) == [scheme |-> scheme, hostname |-> hostname, port |-> port]

\* parsed.netloc: the authority "host", "host:port" or ":port", empty when
\* there is neither a host nor a port.
netloc(parsed) ==
  [host |-> parsed.hostname, port |-> parsed.port, empty |-> parsed.hostname = "" /\ parsed.port = None]

\* qdrant_rest_base: ValueError (here <<>>) without scheme or netloc, else
\* "scheme://host:port" with port 6333 for no port and for 6334.
qdrant_rest_base(raw_url) ==
  IF raw_url.scheme = "" \/ netloc(raw_url).empty THEN <<>>
  ELSE <<[scheme |-> raw_url.scheme, host |-> raw_url.hostname,
          port |-> IF raw_url.port = None THEN RestPort
                   ELSE IF raw_url.port = GrpcPort THEN RestPort
                   ELSE raw_url.port]>>

\* The URL of the other specifications: the gRPC endpoint of a host.
DefaultUrl == Url("http", "h", GrpcPort)

\* The values of QDRANT_URL: with and without scheme, host and port; the
\* ports are the two of Qdrant and two others.
Urls ==
  {Url(sch, h, p) : sch \in {"", "http"}, h \in {"", "h"}, p \in {None, RestPort, GrpcPort, 0, 443}}

\* SELECT id, org_id FROM decisions WHERE valid_to IS NULL AND embedding IS
\* NOT NULL [AND org_id = :org], read into a dict id -> org.
\* The SELECT without its org_id condition.
pg_current_decisions_AllOrgs(org_id) ==
  LET hits == {d \in decisions : d.valid_to = NULL /\ d.embedding}
  IN  [k \in {d.id : d \in hits} |-> (CHOOSE d \in hits : d.id = k).org_id]

pg_current_decisions(org_id) ==
  LET hits == {d \in decisions :
                 /\ d.valid_to = NULL
                 /\ d.embedding
                 /\ (org_id # NULL => d.org_id = org_id)}
  IN  [k \in {d.id : d \in hits} |-> (CHOOSE d \in hits : d.id = k).org_id]

\* isinstance(pid, str): decision ids are UUID strings, modelled as 1..NumIds;
\* Qdrant also allows unsigned integers as point ids.
IsStr(pid) == pid >= 1

\* The page taken from after the continuation token: the point the token
\* names is left out.
ScrollResult_AfterToken(org_id, off) ==
  LET match == {p.id : p \in {q \in qdrant : org_id # NULL => q.org_id = org_id}}
      rest  == sorted({pid \in match : off # NULL => pid > off})
  IN  [points |-> Range(SubSeq(rest, 1, Min(limit, Len(rest)))),
       next_page_offset |-> IF Len(rest) > limit THEN rest[limit + 1] ELSE NULL]

\* One POST /points/scroll: the points matching the filter in id order, from
\* the continuation token on, at most `limit` of them, and the id of the next
\* point (NULL when there is none).
ScrollResult(org_id, off) ==
  LET match == {p.id : p \in {q \in qdrant : org_id # NULL => q.org_id = org_id}}
      rest  == sorted({pid \in match : off # NULL => pid >= off})
  IN  [points |-> Range(SubSeq(rest, 1, Min(limit, Len(rest)))),
       next_page_offset |-> IF Len(rest) > limit THEN rest[limit + 1] ELSE NULL]

\* The wrong operation literal in the VALUES list.
Values_Delete(batch, map) ==
  [k \in 1..Len(batch) |->
     [decision_id |-> batch[k], org_id |-> map[batch[k]], operation |-> "delete"]]

\* The VALUES list of one batch: ('<id>', '<pg_map[id]>', 'upsert') per id.
Values(batch, map) ==
  [k \in 1..Len(batch) |->
     [decision_id |-> batch[k], org_id |-> map[batch[k]], operation |-> "upsert"]]

\* The difference taken symmetric: pg_ids ^ qdrant_ids.
MissingInQdrant_Symmetric(pg_ids, qdrant_ids) ==
  sorted((pg_ids \ qdrant_ids) \cup (qdrant_ids \ pg_ids))

\* The difference without sorted(): list(pg_ids - qdrant_ids) is in the
\* iteration order of the set, which for strings changes from process to
\* process with the hash seed (here: ascending or descending, with the count
\* of steps the environment has taken).
MissingInQdrant_Unsorted(pg_ids, qdrant_ids) ==
  LET asc == sorted(pg_ids \ qdrant_ids)
  IN  IF steps % 2 = 0 THEN asc ELSE [k \in 1..Len(asc) |-> asc[Len(asc) + 1 - k]]

\* missing_in_qdrant = sorted(pg_ids - qdrant_ids)
MissingInQdrant(pg_ids, qdrant_ids) == sorted(pg_ids \ qdrant_ids)

\* extra_in_qdrant = sorted(qdrant_ids - pg_ids)
ExtraInQdrant(pg_ids, qdrant_ids) == sorted(qdrant_ids \ pg_ids)

Report(r) ==
  [kind |-> "json",
   postgres_current_count |-> Cardinality(DOMAIN pg_map[r]),
   qdrant_count |-> Cardinality(ids[r]),
   missing_in_qdrant |-> Len(MissingInQdrant(DOMAIN pg_map[r], ids[r])),
   extra_in_qdrant |-> Len(ExtraInQdrant(DOMAIN pg_map[r], ids[r])),
   org_scope |-> args[r].org_id]

QueuedLine(n) == [kind |-> "queued_repairs", n |-> n]

\* Repair on a missing list with nothing to repair.
ShouldRepair_FlagOnly(missing, repair) == repair

\* if missing_in_qdrant and args.repair:
ShouldRepair(missing, repair) == missing # <<>> /\ repair

\* extra points do not count once --repair is given.
ExitCode_RepairIsZero(missing, extra, repair) ==
  IF missing # <<>> /\ ~repair THEN 1
  ELSE IF extra # <<>> /\ ~repair THEN 1
  ELSE 0

\* The check of extra_in_qdrant left out.
ExitCode_IgnoresExtra(missing, extra, repair) ==
  IF missing # <<>> /\ ~repair THEN 1 ELSE 0

\* The tail of main(): "Non-zero when drift remains unresolved."
ExitCode(missing, extra, repair) ==
  IF missing # <<>> /\ ~repair THEN 1
  ELSE IF extra # <<>> THEN 1
  ELSE 0

\* The write path retires a decision and enqueues the delete of its point in
\* one transaction: a superseded decision whose point is still indexed has
\* its delete entry pending.
PendingDeletes(a) ==
  SetToBag({[NewRow(d.id, d.org_id, "delete", 1) EXCEPT !.attempts = a] :
              d \in {x \in decisions : x.valid_to # NULL /\ Point(x.id) \in qdrant}})

\* No statement yet: no row inserted, no row updated.
NoEffect == [inserted |-> {}, updated |-> {}]

NoArgs == [repair |-> FALSE, org_id |-> NULL, database_url |-> FALSE, qdrant_url |-> FALSE]

\* The environment before the gate has read it.
NoEnv ==
  [database_url |-> FALSE, qdrant_url |-> FALSE, max_dead_letters |-> 0,
   max_outbox_oldest_seconds |-> 0, strict_retention |-> FALSE]

\* No wrapper has been called.
NoFrame == [fn |-> "", pc |-> "", arg |-> <<>>, precedents |-> <<>>, result |-> <<>>, returned |-> <<>>, events |-> <<>>]

Coroutines == 1..NumCoroutines

\* A coroutine that has not called get_token.
NoTask == [pc |-> "idle", returned |-> 0, entry_valid |-> FALSE, posted |-> FALSE, with |-> {}]

\* TokenManager after __init__: _token = "" (here 0), _expires_at = 0.0 and
\* an asyncio.Lock that nobody holds and nobody waits for.
NewTokenManager == [_token |-> 0, _expires_at |-> 0, _lock |-> [_locked |-> FALSE, _waiters |-> <<>>]]

NotWrapped ==
  /\ frame = NoFrame
  /\ tm = NewTokenManager
  /\ tasks = [t \in Coroutines |-> NoTask]

\* No handler has been constructed.
NotConstructed ==
  /\ NotWrapped
  /\ handler = [class |-> "", check_before_action |-> FALSE, trace_tool_use |-> FALSE, trace_final_answer |-> FALSE]
  /\ _pending = <<>>
  /\ client = [check |-> <<>>, trace |-> <<>>]
  /\ logged = 0
  /\ escaped = 0
  /\ awaiting = [check |-> 0, trace |-> 0]
  /\ calls = 0
  /\ last = [callback |-> "", id |-> None]

\* No process has started; the clock is at 1.
NotStarted ==
  /\ gate_pc = "idle"
  /\ env = NoEnv
  /\ checks = <<>>
  /\ gate_stdout = <<>>
  /\ gate_stderr = <<>>
  /\ gate_returncode = RUNNING
  /\ now = 1
  /\ pc = [r \in Procs |-> "idle"]
  /\ args = [r \in Procs |-> NoArgs]
  /\ base_url = [r \in Procs |-> <<>>]
  /\ pg_map = [r \in Procs |-> <<>>]
  /\ ids = [r \in Procs |-> {}]
  /\ offset = [r \in Procs |-> NULL]
  /\ missing_in_qdrant = [r \in Procs |-> <<>>]
  /\ extra_in_qdrant = [r \in Procs |-> <<>>]
  /\ i = [r \in Procs |-> 0]
  /\ stdout = [r \in Procs |-> <<>>]
  /\ stderr = [r \in Procs |-> <<>>]
  /\ returncode = [r \in Procs |-> RUNNING]
  /\ psql = [r \in Procs |-> NoEffect]
  /\ settled = [r \in Procs |-> {}]
  /\ steps = 0

\* The stores hold the decisions DecisionsWith(P) and the points of I, the
\* pending deletes have been tried a times, the orphan query counts c and
\* n agent_events are older than the retention window; no process has
\* started.
InitOf(P, I, a, c, n) ==
  /\ decisions = DecisionsWith(P)
  /\ qdrant = {Point(id) : id \in I}
  /\ search_outbox = PendingDeletes(a)
  /\ silent = {}
  /\ QDRANT_URL = DefaultUrl
  /\ orphans = c
  /\ agent_events = n
  /\ NotStarted
  /\ NotConstructed

\* Some P in Ps, some I in Is, some a in As, no orphans, no old events.
InitWith(Ps, Is, As) ==
  \E P \in Ps : \E I \in Is : \E a \in As : InitOf(P, I, a, <<0, 0, 0>>, 0)

\* Any drift between the first NumIds - 1 ids as current decisions and the
\* last NumIds - 1 ids as points: id 1 can only be missing, id NumIds only
\* extra, the ids between them anything.  With NumIds = 4 this includes
\* P = {A, B, C}, I = {B, C, D}.
Init == InitWith(SUBSET (1..NumIds - 1), SUBSET (2..NumIds), {0})

\* Overlapping runs start from an index that lost every point of a current
\* decision and still holds the stale one.
InitRace == InitWith({1..NumIds - 1}, {{NumIds}}, {0})

\* What the command line and the environment can hold (a URL is set or not).
Args ==
  [repair : BOOLEAN, org_id : Orgs \cup {NULL}, database_url : BOOLEAN, qdrant_url : BOOLEAN]

\* Both stores configured.
Configured == {a \in Args : a.database_url /\ a.qdrant_url}

\* The invocations each process slot makes: r1 is any invocation of all
\* organizations or of organization 1, r2 the overlapping periodic job,
\* `reconcile_qdrant.py --repair`; either with a complete environment or with
\* a URL missing (--org-id and, for r1, --repair make no difference to a run
\* that lacks one).
\* The child is started by the gate only.
Invocations(r) ==
  IF r = "r1" THEN {a \in Args : \/ (a \in Configured /\ a.org_id \in {NULL, 1})
                                  \/ (a \notin Configured /\ a.org_id = NULL /\ ~a.repair)}
  ELSE IF r = "r2"
         THEN {a \in Args : a.repair /\ a.org_id = NULL /\ (a.database_url \/ a.qdrant_url)}
  ELSE {}

\* The ids in the scope of a run that are current and derivable in the
\* primary and have their point in the index.
Settled(org_id) ==
  {id \in DOMAIN pg_current_decisions(org_id) : \E p \in qdrant : p.id = id}

\* print("error: ... is required", file=sys.stderr) of the first URL missing.
UrlError(a) ==
  IF ~a.database_url THEN <<"error: DATABASE_URL is required">>
  ELSE IF ~a.qdrant_url THEN <<"error: QDRANT_URL is required">>
  ELSE <<>>

\* The process goes on to its reads whatever the environment holds.
StartWith_Unchecked(r, a) ==
  /\ pc[r] \in {"idle", "done"}
  /\ args' = [args EXCEPT ![r] = a]
  /\ base_url' = [base_url EXCEPT ![r] = qdrant_rest_base(QDRANT_URL)]
  /\ pc' = [pc EXCEPT ![r] = "pg"]
  /\ returncode' = [returncode EXCEPT ![r] = RUNNING]
  /\ stdout' = [stdout EXCEPT ![r] = <<>>]
  /\ stderr' = [stderr EXCEPT ![r] = <<>>]
  /\ psql' = [psql EXCEPT ![r] = NoEffect]
  /\ settled' = [settled EXCEPT ![r] = Settled(a.org_id)]
  /\ UNCHANGED <<stores, now, locals, steps>>

\* A new process: parse_args, read the environment, fail fast with 2, then
\* base_url = qdrant_rest_base(qdrant_url), whose ValueError nothing catches:
\* a traceback and status 1.
StartWith(r, a) ==
  /\ pc[r] \in {"idle", "done"}
  /\ args' = [args EXCEPT ![r] = a]
  /\ IF ~a.database_url \/ ~a.qdrant_url
       THEN /\ pc' = [pc EXCEPT ![r] = "done"]
            /\ returncode' = [returncode EXCEPT ![r] = 2]
            /\ settled' = [settled EXCEPT ![r] = {}]
            /\ base_url' = [base_url EXCEPT ![r] = <<>>]
            /\ stderr' = [stderr EXCEPT ![r] = UrlError(a)]
       ELSE IF qdrant_rest_base(QDRANT_URL) = <<>>
       THEN /\ pc' = [pc EXCEPT ![r] = "done"]
            /\ returncode' = [returncode EXCEPT ![r] = 1]
            /\ settled' = [settled EXCEPT ![r] = {}]
            /\ base_url' = [base_url EXCEPT ![r] = <<>>]
            /\ stderr' = [stderr EXCEPT ![r] = <<"ValueError: invalid QDRANT_URL">>]
       ELSE /\ pc' = [pc EXCEPT ![r] = "pg"]
            /\ returncode' = [returncode EXCEPT ![r] = RUNNING]
            /\ settled' = [settled EXCEPT ![r] = Settled(a.org_id)]
            /\ base_url' = [base_url EXCEPT ![r] = qdrant_rest_base(QDRANT_URL)]
            /\ stderr' = [stderr EXCEPT ![r] = <<>>]
  /\ stdout' = [stdout EXCEPT ![r] = <<>>]
  /\ psql' = [psql EXCEPT ![r] = NoEffect]
  /\ UNCHANGED <<stores, now, locals, steps>>

Start(r) == \E a \in Invocations(r) : StartWith(r, a) /\ UNCHANGED gate

\* pg_map = pg_current_decisions(database_url, args.org_id)
ReadPg(r) ==
  /\ pc[r] = "pg"
  /\ "primary" \notin silent
  /\ pg_map' = [pg_map EXCEPT ![r] = pg_current_decisions(args[r].org_id)]
  /\ pc' = [pc EXCEPT ![r] = "scroll"]
  /\ UNCHANGED <<stores, now, steps, gate, args, base_url, ids, offset, missing_in_qdrant,
                 extra_in_qdrant, i, stdout, stderr, returncode, psql, settled>>

\* The loop left after its first request, whatever next_page_offset is.
ScrollPage_FirstPageOnly(r) ==
  /\ pc[r] = "scroll"
  /\ "index" \notin silent
  /\ base_url[r][1].host # ""
  /\ LET res == ScrollResult(args[r].org_id, offset[r])
     IN  /\ ids' = [ids EXCEPT ![r] = @ \cup {pid \in res.points : IsStr(pid)}]
         /\ offset' = [offset EXCEPT ![r] = res.next_page_offset]
         /\ pc' = [pc EXCEPT ![r] = "report"]
  /\ UNCHANGED <<stores, now, steps, gate, args, base_url, pg_map, missing_in_qdrant,
                 extra_in_qdrant, i, stdout, stderr, returncode, psql, settled>>

\* One iteration of qdrant_scroll_ids' loop.
ScrollPage(r) ==
  /\ pc[r] = "scroll"
  /\ "index" \notin silent
  /\ base_url[r][1].host # ""
  /\ LET res == ScrollResult(args[r].org_id, offset[r])
     IN  /\ ids' = [ids EXCEPT ![r] = @ \cup {pid \in res.points : IsStr(pid)}]
         /\ offset' = [offset EXCEPT ![r] = res.next_page_offset]
         /\ pc' = [pc EXCEPT ![r] = IF res.next_page_offset = NULL THEN "report" ELSE "scroll"]
  /\ UNCHANGED <<stores, now, steps, gate, args, base_url, pg_map, missing_in_qdrant,
                 extra_in_qdrant, i, stdout, stderr, returncode, psql, settled>>

\* The process ends with status rc.
Exit(r, rc) ==
  /\ pc' = [pc EXCEPT ![r] = "done"]
  /\ returncode' = [returncode EXCEPT ![r] = rc]
  /\ pg_map' = [pg_map EXCEPT ![r] = <<>>]
  /\ ids' = [ids EXCEPT ![r] = {}]
  /\ offset' = [offset EXCEPT ![r] = NULL]
  /\ missing_in_qdrant' = [missing_in_qdrant EXCEPT ![r] = <<>>]
  /\ extra_in_qdrant' = [extra_in_qdrant EXCEPT ![r] = <<>>]
  /\ i' = [i EXCEPT ![r] = 0]
  /\ settled' = [settled EXCEPT ![r] = {}]

\* pg_ids, the two sorted differences, print(json.dumps(...)); without
\* repairs to enqueue the run ends here with its exit code.
PrintReport(r) ==
  /\ pc[r] = "report"
  /\ LET pg_ids  == DOMAIN pg_map[r]
         missing == MissingInQdrant(pg_ids, ids[r])
         extra   == ExtraInQdrant(pg_ids, ids[r])
     IN  /\ stdout' = [stdout EXCEPT ![r] = Append(@, Report(r))]
         /\ IF ShouldRepair(missing, args[r].repair)
              THEN /\ pc' = [pc EXCEPT ![r] = "enqueue"]
                   /\ missing_in_qdrant' = [missing_in_qdrant EXCEPT ![r] = missing]
                   /\ extra_in_qdrant' = [extra_in_qdrant EXCEPT ![r] = extra]
                   /\ UNCHANGED <<returncode, pg_map, ids, offset, i, settled>>
              ELSE Exit(r, ExitCode(missing, extra, args[r].repair))
  /\ UNCHANGED <<stores, now, steps, gate, args, base_url, stderr, psql>>

\* One iteration of enqueue_repairs' loop: one INSERT statement per batch;
\* after the last batch main() prints queued_repairs and returns.
EnqueueBatch(r) ==
  /\ pc[r] = "enqueue"
  /\ "primary" \notin silent
  /\ LET missing == missing_in_qdrant[r]
         batch   == Slice(missing, i[r], i[r] + batch_size)
     IN  /\ search_outbox' = InsertAll(search_outbox, Values(batch, pg_map[r]), now)
         /\ psql' = [psql EXCEPT ![r] = Effect(@, search_outbox, Values(batch, pg_map[r]))]
         /\ IF i[r] + batch_size < Len(missing)
              THEN /\ i' = [i EXCEPT ![r] = @ + batch_size]
                   /\ UNCHANGED <<pc, stdout, returncode, pg_map, ids, offset,
                                  missing_in_qdrant, extra_in_qdrant, settled>>
              ELSE /\ stdout' = [stdout EXCEPT ![r] = Append(@, QueuedLine(Len(missing)))]
                   /\ Exit(r, ExitCode(missing, extra_in_qdrant[r], args[r].repair))
  /\ UNCHANGED <<primary, qdrant, setting, now, steps, gate, args, base_url, stderr>>

\* A failed page request taken for the end of the enumeration, a failed
\* SELECT for an empty table: the run goes on with what it has.
Raise_Swallowed(r) ==
  /\ pc[r] \in {"pg", "scroll"}
  /\ pc' = [pc EXCEPT ![r] = IF pc[r] = "pg" THEN "scroll" ELSE "report"]
  /\ UNCHANGED <<stores, now, steps, gate, args, base_url, locals, stdout, stderr, returncode, psql, settled>>

\* The last line of the traceback of a call that fails: run_psql raises
\* RuntimeError on a non-zero psql status; urlopen raises HTTPError, turned
\* into RuntimeError("qdrant scroll failed: ..."), or URLError / a timeout,
\* which is not caught.
Tracebacks(at) ==
  IF at = "scroll"
    THEN {"RuntimeError: qdrant scroll failed: HTTP", "urllib.error.URLError"}
    ELSE {"RuntimeError: psql failed"}

\* run_psql raises RuntimeError, urlopen raises: nothing catches it, the
\* interpreter prints a traceback and the process exits with status 1.
\* subprocess.run(["psql", ...]) has no timeout: run_psql raises only once
\* psql has ended; urlopen(req, timeout=20) raises on a silent index too.
\* enqueue_repairs swallows the failure of a statement: main() goes on to
\* print queued_repairs and to its exit code.
Raise_EnqueueSwallowed(r) ==
  /\ pc[r] \in {"pg", "scroll", "enqueue"}
  /\ pc[r] \in {"pg", "enqueue"} => "primary" \notin silent
  /\ IF pc[r] = "enqueue"
       THEN /\ stdout' = [stdout EXCEPT ![r] = Append(@, QueuedLine(Len(missing_in_qdrant[r])))]
            /\ Exit(r, ExitCode(missing_in_qdrant[r], extra_in_qdrant[r], args[r].repair))
            /\ stderr' = stderr
       ELSE /\ \E e \in Tracebacks(pc[r]) : stderr' = [stderr EXCEPT ![r] = <<e>>]
            /\ Exit(r, 1)
            /\ stdout' = stdout
  /\ UNCHANGED <<stores, now, steps, gate, args, base_url, psql>>

Raise(r) ==
  /\ pc[r] \in {"pg", "scroll", "enqueue"}
  /\ pc[r] \in {"pg", "enqueue"} => "primary" \notin silent
  /\ \E e \in Tracebacks(pc[r]) : stderr' = [stderr EXCEPT ![r] = <<e>>]
  /\ Exit(r, 1)
  /\ UNCHANGED <<stores, now, steps, gate, args, base_url, stdout, psql>>

main(r) ==
  \/ Start(r)
  \/ ReadPg(r)
  \/ ScrollPage(r)
  \/ PrintReport(r)
  \/ EnqueueBatch(r)
  \/ Raise(r)

\* ------------------------------------------- the outbox's other parties
LeaseTime == 1

\* verify_exit_criteria.py counts an entry with attempts >= 10 as a dead letter;
\* the consumer no longer picks it up.
DeadLetterCeiling == 10

\* The consumer leases a pending entry: attempts + 1, locked_until set.
ConsumerClaim ==
  /\ steps < MaxEnvSteps
  /\ \E r \in rows :
       /\ r.locked_until = NULL \/ r.locked_until <= now
       /\ r.attempts < DeadLetterCeiling
       /\ search_outbox' =
            BagOfAll(LAMBDA x : IF x = r
                                  THEN [x EXCEPT !.attempts = @ + 1,
                                                 !.locked_until = now + LeaseTime]
                                  ELSE x,
                     search_outbox)
  /\ steps' = steps + 1
  /\ UNCHANGED <<primary, qdrant, setting, now, procs>>

\* The consumer succeeds on a leased entry: it applies the operation to the
\* index and removes the entry.
ConsumerSucceed ==
  /\ steps < MaxEnvSteps
  /\ \E r \in rows :
       /\ r.locked_until # NULL
       /\ qdrant' = IF r.operation = "upsert"
                      THEN qdrant \cup {[id |-> r.decision_id, org_id |-> r.org_id]}
                      ELSE {p \in qdrant : p.id # r.decision_id}
       /\ search_outbox' = search_outbox (-) SetToBag({r})
  /\ steps' = steps + 1
  /\ UNCHANGED <<primary, setting, now, procs>>

\* Time passes.
Tick ==
  /\ steps < MaxEnvSteps
  /\ now' = now + 1
  /\ steps' = steps + 1
  /\ UNCHANGED <<stores, procs>>

Consumer == ConsumerClaim \/ ConsumerSucceed

\* ------------------------------------------------ verify_exit_criteria.py
\* The environment after as_int / as_bool: the two URLs set or not,
\* MAX_DEAD_LETTERS (default 0), MAX_OUTBOX_OLDEST_SECONDS (default 1800 s,
\* here one tick of the clock) and STRICT_RETENTION_CHECK.
GateEnv(database_url, qdrant_url, max_dead_letters, max_outbox_oldest_seconds, strict_retention) ==
  [database_url |-> database_url, qdrant_url |-> qdrant_url,
   max_dead_letters |-> max_dead_letters,
   max_outbox_oldest_seconds |-> max_outbox_oldest_seconds,
   strict_retention |-> strict_retention]

\* The environments the gate is run in: without DATABASE_URL; the defaults
\* with the index; the defaults without the index, retention strict; and a
\* triage setting that allows one dead letter and no age, retention strict.
GateEnvs ==
  {GateEnv(FALSE, TRUE, 0, 1, FALSE),
   GateEnv(TRUE, TRUE, 0, 1, FALSE),
   GateEnv(TRUE, FALSE, 0, 1, TRUE),
   GateEnv(TRUE, TRUE, 1, 0, TRUE)}

\* What the three orphan counts of the first query can be: of the tables of
\* runs, alternatives and evidence the model holds these counts only.
OrphanCounts == {<<0, 0, 0>>, <<1, 0, 0>>, <<0, 1, 0>>, <<0, 0, 1>>}

\* What count(*) of the agent_events older than RETAIN_DAYS can be.
OldEvents == {0, 1}

\* count(*) over the rows S of the table box.
CountRows(box, S) ==
  IF S = {} THEN 0 ELSE BagCardinality([x \in S |-> CopiesIn(x, box)])

\* SELECT count(*) FROM search_outbox WHERE attempts >= 10
DeadLetters == CountRows(search_outbox, {x \in rows : x.attempts >= DeadLetterCeiling})

\* The query without its WHERE clause: the oldest entry of the table.
OldestSeconds_All ==
  IF rows = {} THEN 0 ELSE now - SetMin({x.created_at : x \in rows})

\* SELECT COALESCE(EXTRACT(EPOCH FROM (now() - min(created_at)))::bigint, 0)
\* FROM search_outbox WHERE attempts < 10
OldestSeconds ==
  LET pending == {x \in rows : x.attempts < DeadLetterCeiling}
  IN  IF pending = {} THEN 0 ELSE now - SetMin({x.created_at : x \in pending})

\* Only the first count decides.
OrphanIntegrity_DecisionsOnly(c) ==
  [name |-> "orphan_integrity",
   passed |-> c[1] = 0,
   details |-> [decisions_without_run |-> c[1],
                alternatives_without_decision |-> c[2],
                evidence_without_decision |-> c[3]]]

OrphanIntegrity(c) ==
  [name |-> "orphan_integrity",
   passed |-> c[1] + c[2] + c[3] = 0,
   details |-> [decisions_without_run |-> c[1],
                alternatives_without_decision |-> c[2],
                evidence_without_decision |-> c[3]]]

\* The comparison strict: a count equal to the maximum fails.
DeadLetterThreshold_Strict(dead_letters, max_dead_letters) ==
  [name |-> "dead_letter_threshold",
   passed |-> dead_letters < max_dead_letters,
   details |-> [dead_letters |-> dead_letters, max_allowed |-> max_dead_letters]]

DeadLetterThreshold(dead_letters, max_dead_letters) ==
  [name |-> "dead_letter_threshold",
   passed |-> dead_letters <= max_dead_letters,
   details |-> [dead_letters |-> dead_letters, max_allowed |-> max_dead_letters]]

OutboxOldestAge(oldest_seconds, max_outbox_oldest_seconds) ==
  [name |-> "outbox_oldest_age",
   passed |-> oldest_seconds <= max_outbox_oldest_seconds,
   details |-> [oldest_pending_seconds |-> oldest_seconds,
                max_allowed_seconds |-> max_outbox_oldest_seconds]]

StrictRetentionWindow(old_events) ==
  [name |-> "strict_retention_window",
   passed |-> old_events = 0,
   details |-> [events_older_than_retain_days |-> old_events]]

\* A check that did not run, reported as failed.
SkippedCheck_Failed(name, reason) ==
  [name |-> name, passed |-> FALSE, skipped |-> TRUE, details |-> [reason |-> reason]]

\* A check that did not run.
SkippedCheck(name, reason) ==
  [name |-> name, passed |-> TRUE, skipped |-> TRUE, details |-> [reason |-> reason]]

\* json.dumps(obj, indent=indent) as lines of text, each with what the gate
\* asks of a line: its first and last character, and what json.loads makes
\* of it (<<obj>>, or <<>> for a JSONDecodeError). Without indent the object
\* is one line "{...}"; with indent it is "{", one line per field (`kind` is
\* the model's tag, not a field), "}".
Dumps(obj, indent) ==
  IF indent = None
    THEN <<[startswith_brace |-> TRUE, endswith_brace |-> TRUE, loads |-> <<obj>>]>>
    ELSE <<[startswith_brace |-> TRUE, endswith_brace |-> FALSE, loads |-> <<>>]>>
         \o [k \in 1..(Cardinality(DOMAIN obj) - 1) |->
               [startswith_brace |-> FALSE, endswith_brace |-> FALSE, loads |-> <<>>]]
         \o <<[startswith_brace |-> FALSE, endswith_brace |-> TRUE, loads |-> <<>>]>>

\* result.stdout.splitlines() of the reconciler: its report is printed with
\* json.dumps(..., indent=2), the line queued_repairs=<n> as it is.
RECURSIVE splitlines(_)
splitlines(out) ==
  IF out = <<>> THEN <<>>
  ELSE (IF Head(out).kind = "json"
          THEN Dumps(Head(out), 2)
          ELSE <<[startswith_brace |-> FALSE, endswith_brace |-> FALSE, loads |-> <<>>]>>)
       \o splitlines(Tail(out))

\* The loop of run_reconcile_script: the first line that starts with "{",
\* ends with "}" and parses, as <<obj>>; payload stays {} (here <<>>) when
\* there is no such line.
Payload(lines) ==
  LET hits == {k \in 1..Len(lines) :
                 /\ lines[k].startswith_brace
                 /\ lines[k].endswith_brace
                 /\ lines[k].loads # <<>>}
  IN  IF hits = {} THEN <<>> ELSE lines[SetMin(hits)].loads

\* The child run as the periodic job: [sys.executable, str(script), "--repair"].
ReconcileArgv_Repair(e) ==
  [repair |-> TRUE, org_id |-> NULL,
   database_url |-> e.database_url, qdrant_url |-> e.qdrant_url]

\* The command line [sys.executable, str(script)] and env=dict(os.environ):
\* no --repair, no --org-id, the gate's own environment.
ReconcileArgv(e) ==
  [repair |-> FALSE, org_id |-> NULL,
   database_url |-> e.database_url, qdrant_url |-> e.qdrant_url]

\* The qdrant_reconciliation check from what run_reconcile_script returns.
QdrantReconciliation(rc, payload, err) ==
  LET missing == IF payload # <<>> THEN payload[1].missing_in_qdrant ELSE None
      extra   == IF payload # <<>> THEN payload[1].extra_in_qdrant ELSE None
  IN  [name |-> "qdrant_reconciliation",
       passed |-> rc = 0 /\ missing = 0 /\ extra = 0,
       details |-> [missing_in_qdrant |-> missing, extra_in_qdrant |-> extra,
                    returncode |-> rc, stderr |-> err]]

\* any() in place of all().
all_passed_Any(cs) == \E k \in 1..Len(cs) : cs[k].passed

\* all(bool(c.get("passed")) for c in checks)
all_passed(cs) == \A k \in 1..Len(cs) : cs[k].passed

\* The summary printed at the end (its two timestamps left out).
Summary(cs) == [all_passed |-> all_passed(cs), checks |-> cs]

\* The gate ends with status rc.
GateExit(rc) ==
  /\ gate_pc' = "done"
  /\ gate_returncode' = rc
  /\ checks' = <<>>

\* A new gate process: read the environment, fail fast with 2.
GateStart ==
  /\ gate_pc \in {"idle", "done"}
  /\ \E e \in GateEnvs :
       /\ env' = e
       /\ IF ~e.database_url
            THEN /\ gate_stderr' = <<"error: DATABASE_URL is required">>
                 /\ GateExit(2)
            ELSE /\ gate_stderr' = <<>>
                 /\ gate_pc' = "orphan"
                 /\ gate_returncode' = RUNNING
                 /\ checks' = <<>>
  /\ gate_stdout' = <<>>
  /\ UNCHANGED <<stores, now, steps, recon>>

\* The battery left at its first failed check.
OrphanCheck_StopOnFail ==
  /\ gate_pc = "orphan"
  /\ "primary" \notin silent
  /\ checks' = Append(checks, OrphanIntegrity(orphans))
  /\ gate_pc' = IF OrphanIntegrity(orphans).passed THEN "dead_letter" ELSE "summary"
  /\ UNCHANGED <<stores, now, steps, recon, env, gate_stdout, gate_stderr, gate_returncode>>

OrphanCheck ==
  /\ gate_pc = "orphan"
  /\ "primary" \notin silent
  /\ checks' = Append(checks, OrphanIntegrity(orphans))
  /\ gate_pc' = "dead_letter"
  /\ UNCHANGED <<stores, now, steps, recon, env, gate_stdout, gate_stderr, gate_returncode>>

DeadLetterCheck ==
  /\ gate_pc = "dead_letter"
  /\ "primary" \notin silent
  /\ checks' = Append(checks, DeadLetterThreshold(DeadLetters, env.max_dead_letters))
  /\ gate_pc' = "oldest"
  /\ UNCHANGED <<stores, now, steps, recon, env, gate_stdout, gate_stderr, gate_returncode>>

OldestCheck ==
  /\ gate_pc = "oldest"
  /\ "primary" \notin silent
  /\ checks' = Append(checks, OutboxOldestAge(OldestSeconds, env.max_outbox_oldest_seconds))
  /\ gate_pc' = "retention"
  /\ UNCHANGED <<stores, now, steps, recon, env, gate_stdout, gate_stderr, gate_returncode>>

RetentionCheck ==
  /\ gate_pc = "retention"
  /\ env.strict_retention => "primary" \notin silent
  /\ IF env.strict_retention
       THEN checks' = Append(checks, StrictRetentionWindow(agent_events))
       ELSE checks' = Append(checks, SkippedCheck("strict_retention_window",
                                                  "STRICT_RETENTION_CHECK=false"))
  /\ gate_pc' = "qdrant"
  /\ UNCHANGED <<stores, now, steps, recon, env, gate_stdout, gate_stderr, gate_returncode>>

\* if qdrant_url: subprocess.run starts the reconciler and waits for it.
RunReconcile ==
  /\ gate_pc = "qdrant"
  /\ env.qdrant_url
  /\ StartWith(Child, ReconcileArgv(env))
  /\ gate_pc' = "wait"
  /\ UNCHANGED <<env, checks, gate_stdout, gate_stderr, gate_returncode>>

\* else: the check is skipped.
SkipReconcile ==
  /\ gate_pc = "qdrant"
  /\ ~env.qdrant_url
  /\ checks' = Append(checks, SkippedCheck("qdrant_reconciliation", "QDRANT_URL not set"))
  /\ gate_pc' = "summary"
  /\ UNCHANGED <<stores, now, steps, recon, env, gate_stdout, gate_stderr, gate_returncode>>

\* The child has exited: run_reconcile_script returns and the check is added.
ReconcileReturned ==
  /\ gate_pc = "wait"
  /\ pc[Child] = "done"
  /\ checks' = Append(checks, QdrantReconciliation(returncode[Child],
                                                   Payload(splitlines(stdout[Child])),
                                                   stderr[Child]))
  /\ gate_pc' = "summary"
  /\ UNCHANGED <<stores, now, steps, recon, env, gate_stdout, gate_stderr, gate_returncode>>

\* The report printed, the status 0 whatever the verdict.
PrintSummary_Zero ==
  /\ gate_pc = "summary"
  /\ gate_stdout' = <<Summary(checks)>>
  /\ GateExit(0)
  /\ UNCHANGED <<stores, now, steps, recon, env, gate_stderr>>

\* print(json.dumps(summary, indent=2)); return 0 if all_passed else 1
PrintSummary ==
  /\ gate_pc = "summary"
  /\ gate_stdout' = <<Summary(checks)>>
  /\ GateExit(IF all_passed(checks) THEN 0 ELSE 1)
  /\ UNCHANGED <<stores, now, steps, recon, env, gate_stderr>>

\* A query of the gate fails (run_psql raises once psql has ended) or returns
\* what int() does not parse: except Exception prints the error to stderr
\* and returns 2.
GateRaise ==
  /\ \/ gate_pc \in {"orphan", "dead_letter", "oldest"}
     \/ gate_pc = "retention" /\ env.strict_retention
  /\ "primary" \notin silent
  /\ gate_stderr' = <<"error">>
  /\ GateExit(2)
  /\ UNCHANGED <<stores, now, steps, recon, env, gate_stdout>>

Gate ==
  \/ GateStart
  \/ OrphanCheck
  \/ DeadLetterCheck
  \/ OldestCheck
  \/ RetentionCheck
  \/ RunReconcile
  \/ SkipReconcile
  \/ ReconcileReturned
  \/ PrintSummary
  \/ GateRaise

\* One reconciler process at a time (the periodic job), beside the consumer.
Next ==
  \/ main("r1")
  \/ Consumer
  \/ Tick

Spec == Init /\ [][Next]_vars

\* One reconciler and the consumer, within one tick of the clock.
NextRepair ==
  \/ main("r1")
  \/ Consumer

SpecRepair == Init /\ [][NextRepair]_vars

\* Overlapping invocations of the job, within one tick of the clock.
NextRace ==
  \/ \E r \in Runs : main(r)
  \/ Consumer

SpecRace == InitRace /\ [][NextRace]_vars

World(P, I, a, c, n) == [P |-> P, I |-> I, attempts |-> a, orphans |-> c, agent_events |-> n]

\* What the gate is run over: the stores in drift with a fresh pending
\* delete and old events; the stores in step and nothing wrong; the stores
\* in drift with one dead letter; two dead letters, an orphan decision and
\* old events; a stale point and an orphan evidence; the stores in step and
\* an orphan alternative.
GateWorlds ==
  {World({1, 2, 3}, {2, 3, 4}, 0, <<0, 0, 0>>, 1),
   World({2, 3}, {2, 3}, 0, <<0, 0, 0>>, 0),
   World({1, 2, 3}, {2, 3, 4}, DeadLetterCeiling, <<0, 0, 0>>, 0),
   World({1, 3}, {2, 3, 4}, DeadLetterCeiling, <<1, 0, 0>>, 1),
   World({2, 3}, {2, 3, 4}, 0, <<0, 0, 1>>, 0),
   World({2, 3}, {2, 3}, 0, <<0, 1, 0>>, 0)}

InitGate ==
  \E w \in GateWorlds :
    /\ w.orphans \in OrphanCounts
    /\ w.agent_events \in OldEvents
    /\ InitOf(w.P, w.I, w.attempts, w.orphans, w.agent_events)

\* The gate and its child beside the periodic --repair job and the consumer.
NextGate ==
  \/ Gate
  \/ main(Child)
  \/ main("r2")
  \/ Consumer
  \/ Tick

SpecGate == InitGate /\ [][NextGate]_vars

\* An `upsert` entry whose attempts have all failed: a dead letter.
DeadUpsert(id) ==
  [NewRow(id, OrgOf(id), "upsert", 1) EXCEPT !.attempts = DeadLetterCeiling]

\* Worlds in which an earlier repair of decision 1 has become a dead letter:
\* decision 1 is current and has lost its point, with and without a stale
\* point beside it, or decision 1 is not derivable and so is not missing.
DeadWorlds ==
  {World({1, 2, 3}, {2, 3}, 0, <<0, 0, 0>>, 0),
   World({1, 2, 3}, {2, 3, 4}, DeadLetterCeiling, <<0, 0, 0>>, 0),
   World({2, 3}, {2, 3}, 0, <<0, 0, 0>>, 0)}

InitDead ==
  \E w \in DeadWorlds :
    /\ decisions = DecisionsWith(w.P)
    /\ qdrant = {Point(id) : id \in w.I}
    /\ search_outbox = PendingDeletes(w.attempts) (+) SetToBag({DeadUpsert(1)})
    /\ silent = {}
    /\ QDRANT_URL = DefaultUrl
    /\ orphans = w.orphans
    /\ agent_events = w.agent_events
    /\ NotStarted
    /\ NotConstructed

SpecDead == InitDead /\ [][NextGate]_vars

\* ------------------------------------------ akashi_langchain/_handler.py
_MAX_OUTCOME == 500
_MAX_REASONING == 500
_MAX_QUERY == 200

\* The callbacks LangChain invokes on one handler.
MaxCallbacks == 4

\* A str by its content and its length; a slice s[:n] is the same content
\* cut to n characters.
Text(s, n) == [s |-> s, len |-> n]

_trunc(value, max_len) ==
  IF value.len > max_len THEN Text(value.s, max_len) ELSE value

\* The run ids of the agents (UUIDs).
RunIds == {1, 2}

\* AgentAction objects: tool, tool_input, log; one with an input longer than
\* a query holds and without log.
AgentActions ==
  { [tool |-> "calculator", tool_input |-> Text("2+2", 3), log |-> Text("Using calc", 10)],
    [tool |-> "search", tool_input |-> Text("long input", _MAX_QUERY + 1), log |-> Text("", 0)] }

\* Tool outputs, one longer than an outcome holds.
Outputs == {Text("long output", _MAX_OUTCOME + 1)}

\* AgentFinish objects: return_values with or without the key "output"
\* (str is the text of the whole dict), and the log.
Finishes ==
  { [return_values |-> [output |-> <<Text("Paris", 5)>>, str |-> Text("{'output': 'Paris'}", 19)],
     log |-> Text("I found it", 10)],
    [return_values |-> [output |-> <<>>, str |-> Text("{'answer': ...}", _MAX_OUTCOME + 1)],
     log |-> Text("", 0)] }

\* __init__ of the two classes: the client, the defaults of decision_type
\* and confidence, and any value of the three flags; _pending starts empty.
Handlers ==
  [class : {"AkashiCallbackHandler", "AsyncAkashiCallbackHandler"},
   decision_type : {"agent_decision"}, confidence : {"0.7"},
   check_before_action : BOOLEAN, trace_tool_use : BOOLEAN, trace_final_answer : BOOLEAN]

\* The TraceRequest of on_tool_end: outcome "used tool '<tool>': <output>".
ToolTrace(action, output) ==
  [decision_type |-> handler.decision_type,
   outcome |-> [used_tool |-> <<action.tool>>, text |-> _trunc(output, _MAX_OUTCOME)],
   reasoning |-> IF action.log.len > 0 THEN <<_trunc(action.log, _MAX_REASONING)>> ELSE <<>>,
   confidence |-> handler.confidence,
   metadata |-> <<[tool |-> action.tool, tool_input |-> _trunc(action.tool_input, _MAX_QUERY)]>>]

\* The TraceRequest of on_agent_finish.
FinishTrace(finish) ==
  LET output == IF finish.return_values.output # <<>> THEN finish.return_values.output[1]
                ELSE finish.return_values.str
  IN [decision_type |-> handler.decision_type,
      outcome |-> [used_tool |-> <<>>, text |-> _trunc(output, _MAX_OUTCOME)],
      reasoning |-> IF finish.log.len > 0 THEN <<_trunc(finish.log, _MAX_REASONING)>> ELSE <<>>,
      confidence |-> handler.confidence,
      metadata |-> <<>>]

\* The query of on_agent_action: "tool=<tool> input=<tool_input>".
Query(action) == [tool |-> action.tool, input |-> _trunc(action.tool_input, _MAX_QUERY)]

\* The call is made outside any try: what the client raises leaves the
\* callback.
Call_NoTry(verb, arg, raised) ==
  /\ client' = [client EXCEPT ![verb] = Append(@, arg)]
  /\ IF handler.class = "AsyncAkashiCallbackHandler"
       THEN /\ ~raised
            /\ awaiting' = [awaiting EXCEPT ![verb] = @ + 1]
       ELSE /\ awaiting' = awaiting
  /\ logged' = logged
  /\ escaped' = IF raised THEN escaped + 1 ELSE escaped

\* A call of the client inside try/except Exception: the call is made; the
\* sync client answers or raises within the call, the async one suspends
\* the coroutine; an exception is logged at DEBUG level and goes no further.
Call(verb, arg, raised) ==
  /\ client' = [client EXCEPT ![verb] = Append(@, arg)]
  /\ IF handler.class = "AsyncAkashiCallbackHandler"
       THEN /\ ~raised
            /\ awaiting' = [awaiting EXCEPT ![verb] = @ + 1]
            /\ logged' = logged
       ELSE /\ awaiting' = awaiting
            /\ logged' = IF raised THEN logged + 1 ELSE logged
  /\ escaped' = escaped

_check(query, raised) == Call("check", query, raised)

_trace(req, raised) == Call("trace", req, raised)

\* A callback that returns without a call of the client.
NoCall(raised) == ~raised /\ UNCHANGED <<client, logged, escaped, awaiting>>

\* LangChain invokes a callback.
Invoke(callback, id, arg) ==
  /\ handler.class # ""
  /\ calls < MaxCallbacks
  /\ calls' = calls + 1
  /\ last' = [callback |-> callback, id |-> id, arg |-> arg]
  /\ UNCHANGED <<handler, wrappers, scripts>>

\* dict.pop(key, None)
pop(dict, key) == [k \in DOMAIN dict \ {key} |-> dict[k]]

on_agent_action(action, run_id, raised) ==
  /\ Invoke("on_agent_action", run_id, action)
  /\ _pending' = [k \in DOMAIN _pending \cup {run_id} |-> IF k = run_id THEN action ELSE _pending[k]]
  /\ IF handler.check_before_action
       THEN _check(Query(action), raised)
       ELSE NoCall(raised)

\* The action taken is the one of the smallest pending run id.
on_tool_end_AnyPending(output, parent_run_id, raised) ==
  /\ Invoke("on_tool_end", parent_run_id, output)
  /\ IF ~handler.trace_tool_use
       THEN UNCHANGED _pending /\ NoCall(raised)
       ELSE IF parent_run_id = None \/ DOMAIN _pending = {}
       THEN UNCHANGED _pending /\ NoCall(raised)
       ELSE LET key == CHOOSE k \in DOMAIN _pending : \A j \in DOMAIN _pending : k <= j
            IN /\ _pending' = pop(_pending, key)
               /\ _trace(ToolTrace(_pending[key], output), raised)

\* parent_run_id is the agent's run id, under which the action was stored;
\* the tool's own run_id is not read.
on_tool_end(output, parent_run_id, raised) ==
  /\ Invoke("on_tool_end", parent_run_id, output)
  /\ IF ~handler.trace_tool_use
       THEN UNCHANGED _pending /\ NoCall(raised)
       ELSE IF parent_run_id = None \/ parent_run_id \notin DOMAIN _pending
       THEN UNCHANGED _pending /\ NoCall(raised)
       ELSE /\ _pending' = pop(_pending, parent_run_id)
            /\ _trace(ToolTrace(_pending[parent_run_id], output), raised)

on_tool_error(error, parent_run_id) ==
  /\ Invoke("on_tool_error", parent_run_id, error)
  /\ _pending' = IF parent_run_id # None THEN pop(_pending, parent_run_id) ELSE _pending
  /\ NoCall(FALSE)

on_agent_finish(finish, run_id, raised) ==
  /\ Invoke("on_agent_finish", run_id, finish)
  /\ UNCHANGED _pending
  /\ IF ~handler.trace_final_answer
       THEN NoCall(raised)
       ELSE _trace(FinishTrace(finish), raised)

\* The async client answers or raises: the suspended coroutine goes on.
Resume(verb, raised) ==
  /\ awaiting[verb] > 0
  /\ awaiting' = [awaiting EXCEPT ![verb] = @ - 1]
  /\ logged' = IF raised THEN logged + 1 ELSE logged
  /\ escaped' = escaped
  /\ UNCHANGED <<handler, _pending, client, calls, last, wrappers, scripts>>

\* One handler of either class with any flags; the scripts are not running.
InitHandler ==
  /\ decisions = DecisionsWith({})
  /\ qdrant = {}
  /\ search_outbox = EmptyBag
  /\ silent = {}
  /\ QDRANT_URL = DefaultUrl
  /\ orphans = <<0, 0, 0>>
  /\ agent_events = 0
  /\ NotStarted
  /\ NotWrapped
  /\ handler \in Handlers
  /\ _pending = <<>>
  /\ client = [check |-> <<>>, trace |-> <<>>]
  /\ logged = 0
  /\ escaped = 0
  /\ awaiting = [check |-> 0, trace |-> 0]
  /\ calls = 0
  /\ last = [callback |-> "", id |-> None]

NextHandler ==
  \/ \E action \in AgentActions, run_id \in RunIds, raised \in BOOLEAN : on_agent_action(action, run_id, raised)
  \/ \E output \in Outputs, parent_run_id \in RunIds \cup {None}, raised \in BOOLEAN : on_tool_end(output, parent_run_id, raised)
  \/ \E parent_run_id \in RunIds \cup {None} : on_tool_error("boom", parent_run_id)
  \/ \E finish \in Finishes, run_id \in {1}, raised \in BOOLEAN : on_agent_finish(finish, run_id, raised)
  \/ \E verb \in {"check", "trace"}, raised \in BOOLEAN : Resume(verb, raised)

SpecHandler == InitHandler /\ [][NextHandler]_vars

\* ------------------------------------------------ akashi_crewai/_hooks.py
\* AkashiCrewCallbacks.__init__: the defaults of decision_type and
\* confidence and any value of the two flags.
Hooks ==
  [class : {"AkashiCrewCallbacks"}, decision_type : {"crew_task"}, confidence : {"0.7"},
   check_before_step : BOOLEAN, trace_task_output : BOOLEAN]

\* TaskOutput objects: with raw, description and agent, with an empty
\* description, and an object with none of the attributes (str is its text).
TaskOutputs ==
  { [raw |-> <<Text("report", 6)>>, description |-> <<Text("Research AI", 11)>>,
     agent |-> <<"researcher">>, str |-> Text("report", 6)],
    [raw |-> <<Text("long report", _MAX_OUTCOME + 1)>>, description |-> <<Text("", 0)>>,
     agent |-> <<"writer">>, str |-> Text("long report", _MAX_OUTCOME + 1)],
    [raw |-> <<>>, description |-> <<>>, agent |-> <<>>, str |-> Text("<object>", 8)] }

\* Step outputs: an AgentAction (a tool and its input), an object with a tool
\* and no tool_input, and an AgentFinish (no tool).
AgentOutputs ==
  { [tool |-> <<"search">>, tool_input |-> <<Text("AI trends", 9)>>],
    [tool |-> <<"calculator">>, tool_input |-> <<>>],
    [tool |-> <<>>, tool_input |-> <<>>] }

\* getattr(object, name, default)
getattr(attribute, default) == IF attribute # <<>> THEN attribute[1] ELSE default

\* The TraceRequest of on_task_complete.
TaskTrace(task_output) ==
  LET raw == _trunc(getattr(task_output.raw, task_output.str), _MAX_OUTCOME)
      description == _trunc(getattr(task_output.description, Text("", 0)), _MAX_REASONING)
      agent == getattr(task_output.agent, "unknown")
  IN [decision_type |-> handler.decision_type,
      outcome |-> [used_tool |-> <<>>, text |-> raw],
      reasoning |-> IF description.len > 0 THEN <<description>> ELSE <<>>,
      confidence |-> handler.confidence,
      metadata |-> <<[agent |-> agent]>>]

\* The query of on_step: "tool=<tool> input=<tool_input>".
StepQuery(agent_output) ==
  [tool |-> agent_output.tool[1],
   input |-> _trunc(getattr(agent_output.tool_input, Text("", 0)), _MAX_QUERY)]

on_task_complete(task_output, raised) ==
  /\ Invoke("on_task_complete", None, task_output)
  /\ UNCHANGED _pending
  /\ IF ~handler.trace_task_output
       THEN NoCall(raised)
       ELSE _trace(TaskTrace(task_output), raised)

\* The check is made for every step output, tool or not.
on_step_AnyOutput(agent_output, raised) ==
  /\ Invoke("on_step", None, agent_output)
  /\ UNCHANGED _pending
  /\ IF ~handler.check_before_step
       THEN NoCall(raised)
       ELSE _check([tool |-> getattr(agent_output.tool, "None"),
                    input |-> _trunc(getattr(agent_output.tool_input, Text("", 0)), _MAX_QUERY)], raised)

on_step(agent_output, raised) ==
  /\ Invoke("on_step", None, agent_output)
  /\ UNCHANGED _pending
  /\ IF ~handler.check_before_step
       THEN NoCall(raised)
       ELSE IF agent_output.tool # <<>>
       THEN _check(StepQuery(agent_output), raised)
       ELSE NoCall(raised)

\* ------------------------------------------------------- run_with_akashi
\* The calls of a wrapper (run_with_akashi, the middleware's wrap).
MaxWraps == 2

\* The inputs of a crew: None, an empty dict, a dict, and a dict whose text
\* is longer than a query holds (len is the number of keys, str the text).
CrewInputs ==
  { <<>>,
    <<[len |-> 0, str |-> Text("{}", 2)]>>,
    <<[len |-> 1, str |-> Text("{'topic': 'AI'}", 15)]>>,
    <<[len |-> 2, str |-> Text("{'x': ..., 'y': ...}", _MAX_QUERY + 1)]>> }

\* What crew.kickoff returns (a CrewOutput, by its text).
CrewOutputs == {Text("crew result", 11), Text("long crew result", _MAX_OUTCOME + 1)}

\* The truth value of `inputs`: None and the empty dict are false.
bool(inputs) == inputs # <<>> /\ inputs[1].len > 0

\* The query of run_with_akashi: the text of the inputs cut to a query.
RunQuery(inputs) == IF bool(inputs) THEN <<_trunc(inputs[1].str, _MAX_QUERY)>> ELSE <<>>

\* The TraceRequest of run_with_akashi.
RunTrace(inputs, result) ==
  [decision_type |-> "crew_run",
   outcome |-> [used_tool |-> <<>>, text |-> _trunc(result, _MAX_OUTCOME)],
   reasoning |-> <<>>,
   confidence |-> "0.7",
   metadata |-> <<[inputs |-> IF bool(inputs) THEN _trunc(inputs[1].str, 200) ELSE Text("", 0)]>>]

\* One more entry in the frame's list of calls: what was called, with
\* what, and what it returned unless it raised.
Event(call, arg, value, raised) == [call |-> call, arg |-> arg, value |-> IF raised THEN <<>> ELSE value, raised |-> raised]

\* A wrapper is called: no other call of a wrapper is in progress.
Enter(fn, arg) ==
  /\ handler.class = ""
  /\ frame.pc \in {"", "returned", "raised"}
  /\ calls < MaxWraps
  /\ calls' = calls + 1
  /\ frame' = [NoFrame EXCEPT !.fn = fn, !.pc = "check", !.arg = arg]
  /\ UNCHANGED <<handler, _pending, client, logged, escaped, awaiting, last, auth, scripts>>

\* The frame of fn is at pc; the handlers and the scripts are not touched.
At(fn, at) ==
  /\ frame.fn = fn
  /\ frame.pc = at
  /\ UNCHANGED <<handler, _pending, escaped, awaiting, calls, last, auth, scripts>>

run_with_akashi(inputs) == Enter("run_with_akashi", inputs)

\* The check is made outside any try: what the client raises leaves
\* run_with_akashi.
CrewCheck_NoTry(raised) ==
  /\ At("run_with_akashi", "check")
  /\ client' = [client EXCEPT !.check = Append(@, [decision_type |-> "crew_run", query |-> RunQuery(frame.arg)])]
  /\ logged' = logged
  /\ frame' = [frame EXCEPT !.pc = IF raised THEN "raised" ELSE "kickoff",
                             !.events = Append(@, Event("check", RunQuery(frame.arg), <<>>, raised))]

\* try: client.check(decision_type, query); except Exception: logger.debug
CrewCheck(raised) ==
  /\ At("run_with_akashi", "check")
  /\ client' = [client EXCEPT !.check = Append(@, [decision_type |-> "crew_run", query |-> RunQuery(frame.arg)])]
  /\ logged' = IF raised THEN logged + 1 ELSE logged
  /\ frame' = [frame EXCEPT !.pc = "kickoff",
                             !.events = Append(@, Event("check", RunQuery(frame.arg), <<>>, raised))]

\* result = crew.kickoff(inputs=inputs), outside any try: what the crew
\* raises leaves run_with_akashi.
Kickoff(result, raised) ==
  /\ At("run_with_akashi", "kickoff")
  /\ frame' = [frame EXCEPT !.pc = IF raised THEN "raised" ELSE "trace",
                             !.result = IF raised THEN <<>> ELSE <<result>>,
                             !.events = Append(@, Event("kickoff", frame.arg, <<result>>, raised))]
  /\ UNCHANGED <<client, logged>>

\* try: client.trace(TraceRequest(...)); except Exception: logger.debug;
\* return result
CrewTrace(raised) ==
  /\ At("run_with_akashi", "trace")
  /\ client' = [client EXCEPT !.trace = Append(@, RunTrace(frame.arg, frame.result[1]))]
  /\ logged' = IF raised THEN logged + 1 ELSE logged
  /\ frame' = [frame EXCEPT !.pc = "returned",
                             !.returned = frame.result,
                             !.events = Append(@, Event("trace", RunTrace(frame.arg, frame.result[1]), <<>>, raised))]

\* ---------------------------------------------------- akashi/middleware.py
\* The two middleware classes; wrap of the first is a coroutine, whose
\* awaits are the boundaries of the steps below.
Middlewares == {"AkashiMiddleware", "AkashiSyncMiddleware"}

WrapOf(class) == IF class = "AkashiMiddleware" THEN "AkashiMiddleware.wrap" ELSE "AkashiSyncMiddleware.wrap"

Wraps == {WrapOf(class) : class \in Middlewares}

DecisionTypes == {"test", "model_selection"}

\* What client.check returns.
CheckResponses == [has_precedent : BOOLEAN]

\* What the wrapped function returns: objects with a to_trace() method.
Traceables ==
  { [to_trace |-> [decision_type |-> "test", outcome |-> [used_tool |-> <<>>, text |-> Text("result", 6)],
                   reasoning |-> <<>>, confidence |-> "0.7", metadata |-> <<>>]] }

wrap(class, decision_type) == Enter(WrapOf(class), decision_type)

\* The check is made inside a try that logs: the function is called all the
\* same, without precedents.
WrapCheck_Try(precedents, raised) ==
  /\ \E fn \in Wraps : At(fn, "check")
  /\ client' = [client EXCEPT !.check = Append(@, [decision_type |-> frame.arg, query |-> <<>>])]
  /\ logged' = IF raised THEN logged + 1 ELSE logged
  /\ frame' = [frame EXCEPT !.pc = "func",
                             !.precedents = IF raised THEN <<>> ELSE <<precedents>>,
                             !.events = Append(@, Event("check", frame.arg, <<precedents>>, raised))]

\* precedents = self.client.check(decision_type): no try, what the client
\* raises leaves wrap.
WrapCheck(precedents, raised) ==
  /\ \E fn \in Wraps : At(fn, "check")
  /\ client' = [client EXCEPT !.check = Append(@, [decision_type |-> frame.arg, query |-> <<>>])]
  /\ logged' = logged
  /\ frame' = [frame EXCEPT !.pc = IF raised THEN "raised" ELSE "func",
                             !.precedents = IF raised THEN <<>> ELSE <<precedents>>,
                             !.events = Append(@, Event("check", frame.arg, <<precedents>>, raised))]

\* result = func(*args, precedents=precedents, **kwargs)
WrapFunc(result, raised) ==
  /\ \E fn \in Wraps : At(fn, "func")
  /\ frame' = [frame EXCEPT !.pc = IF raised THEN "raised" ELSE "trace",
                             !.result = IF raised THEN <<>> ELSE <<result>>,
                             !.events = Append(@, Event("func", frame.precedents, <<result>>, raised))]
  /\ UNCHANGED <<client, logged>>

\* self.client.trace(result.to_trace()); return result
WrapTrace(raised) ==
  /\ \E fn \in Wraps : At(fn, "trace")
  /\ client' = [client EXCEPT !.trace = Append(@, frame.result[1].to_trace)]
  /\ logged' = logged
  /\ frame' = [frame EXCEPT !.pc = IF raised THEN "raised" ELSE "returned",
                             !.returned = IF raised THEN <<>> ELSE frame.result,
                             !.events = Append(@, Event("trace", frame.result[1].to_trace, <<>>, raised))]

\* ---------------------------------------------------------- akashi/auth.py
_refresh_margin_seconds == 30

\* How long after the request the token of a response expires: within the
\* margin, one second beyond it, and an hour.
Lifetimes == {_refresh_margin_seconds, _refresh_margin_seconds + 1, 3600}

_is_valid == tm._token # 0 /\ now < tm._expires_at - _refresh_margin_seconds

\* The coroutines inside get_token.
Inside == {t \in Coroutines : tasks[t].pc \in {"acquire", "post"}}

\* The call of t is entered in the history: whether it saw a valid token
\* and which calls were in progress.
Entered(t, entry_valid) ==
  [u \in Coroutines |->
     IF u = t THEN [tasks[t] EXCEPT !.entry_valid = entry_valid, !.with = Inside]
     ELSE IF u \in Inside THEN [tasks[u] EXCEPT !.with = @ \cup {t}]
     ELSE tasks[u]]

\* With the lock in hand the coroutine posts whatever the token is.
UnderLock_NoDoubleCheck(t, lock, entered) ==
  /\ tm' = [tm EXCEPT !._lock = [lock EXCEPT !._locked = TRUE]]
  /\ tasks' = [entered EXCEPT ![t].pc = "post", ![t].posted = TRUE]

\* Inside `async with self._lock`: the second _is_valid(); either return
\* self._token, which leaves the lock, or await self._refresh(client), which
\* issues the POST and suspends the coroutine with the lock held.
UnderLock(t, lock, entered) ==
  IF _is_valid
    THEN /\ tm' = [tm EXCEPT !._lock = [lock EXCEPT !._locked = FALSE]]
         /\ tasks' = [entered EXCEPT ![t].pc = "returned", ![t].returned = tm._token]
    ELSE /\ tm' = [tm EXCEPT !._lock = [lock EXCEPT !._locked = TRUE]]
         /\ tasks' = [entered EXCEPT ![t].pc = "post", ![t].posted = TRUE]

\* A coroutine calls get_token: a valid token is returned at once; else it
\* takes the lock if nobody holds it or waits for it, and otherwise queues
\* up in acquire().
get_token(t) ==
  /\ tasks[t].pc = "idle"
  /\ IF _is_valid
       THEN /\ tasks' = [Entered(t, TRUE) EXCEPT ![t].pc = "returned", ![t].returned = tm._token]
            /\ tm' = tm
       ELSE IF ~tm._lock._locked /\ tm._lock._waiters = <<>>
       THEN UnderLock(t, tm._lock, Entered(t, FALSE))
       ELSE /\ tasks' = [Entered(t, FALSE) EXCEPT ![t].pc = "acquire"]
            /\ tm' = [tm EXCEPT !._lock._waiters = Append(@, t)]
  /\ UNCHANGED <<handler, _pending, client, logged, escaped, awaiting, calls, last, frame, scripts>>

\* The lock was released: its first waiter wakes up holding it.
Acquired(t) ==
  /\ tasks[t].pc = "acquire"
  /\ ~tm._lock._locked
  /\ tm._lock._waiters # <<>>
  /\ t = Head(tm._lock._waiters)
  /\ UnderLock(t, [tm._lock EXCEPT !._waiters = Tail(@)], tasks)
  /\ UNCHANGED <<handler, _pending, client, logged, escaped, awaiting, calls, last, frame, scripts>>

\* The POST of _refresh is answered: raise_for_status() raises, or
\* _apply_token_response stores the token and its expiry; the lock is left
\* either way and get_token returns self._token unless it raised.  The
\* token of a response is named after the coroutine that asked for it.
_refresh(t, lifetime, raised) ==
  /\ tasks[t].pc = "post"
  /\ IF raised
       THEN /\ tm' = [tm EXCEPT !._lock._locked = FALSE]
            /\ tasks' = [tasks EXCEPT ![t].pc = "raised"]
       ELSE /\ tm' = [tm EXCEPT !._token = t, !._expires_at = now + lifetime, !._lock._locked = FALSE]
            /\ tasks' = [tasks EXCEPT ![t].pc = "returned", ![t].returned = t]
  /\ UNCHANGED <<handler, _pending, client, logged, escaped, awaiting, calls, last, frame, scripts>>

InitToken ==
  /\ decisions = DecisionsWith({})
  /\ qdrant = {}
  /\ search_outbox = EmptyBag
  /\ silent = {}
  /\ QDRANT_URL = DefaultUrl
  /\ orphans = <<0, 0, 0>>
  /\ agent_events = 0
  /\ NotStarted
  /\ NotConstructed

NextToken ==
  \/ \E t \in Coroutines : get_token(t)
  \/ \E t \in Coroutines : Acquired(t)
  \/ \E t \in Coroutines, lifetime \in Lifetimes, raised \in BOOLEAN : _refresh(t, lifetime, raised)
  \/ Tick

SpecToken == InitToken /\ [][NextToken]_vars

\* ------------------------------------------- the wrappers on their own
\* No handler is constructed; the scripts are not running.
InitWrappers ==
  /\ decisions = DecisionsWith({})
  /\ qdrant = {}
  /\ search_outbox = EmptyBag
  /\ silent = {}
  /\ QDRANT_URL = DefaultUrl
  /\ orphans = <<0, 0, 0>>
  /\ agent_events = 0
  /\ NotStarted
  /\ NotConstructed

NextWrappers ==
  \/ \E inputs \in CrewInputs : run_with_akashi(inputs)
  \/ \E raised \in BOOLEAN : CrewCheck(raised)
  \/ \E result \in CrewOutputs, raised \in BOOLEAN : Kickoff(result, raised)
  \/ \E raised \in BOOLEAN : CrewTrace(raised)
  \/ \E class \in Middlewares, decision_type \in DecisionTypes : wrap(class, decision_type)
  \/ \E precedents \in CheckResponses, raised \in BOOLEAN : WrapCheck(precedents, raised)
  \/ \E result \in Traceables, raised \in BOOLEAN : WrapFunc(result, raised)
  \/ \E raised \in BOOLEAN : WrapTrace(raised)

SpecWrappers == InitWrappers /\ [][NextWrappers]_vars

\* ------------------------------------------------- callbacks of either kit
IsLangChain == handler.class \in {"AkashiCallbackHandler", "AsyncAkashiCallbackHandler"}

IsCrew == handler.class = "AkashiCrewCallbacks"

\* One LangChain handler or one set of CrewAI callbacks.
InitCallbacks ==
  /\ decisions = DecisionsWith({})
  /\ qdrant = {}
  /\ search_outbox = EmptyBag
  /\ silent = {}
  /\ QDRANT_URL = DefaultUrl
  /\ orphans = <<0, 0, 0>>
  /\ agent_events = 0
  /\ NotStarted
  /\ NotWrapped
  /\ handler \in Handlers \cup Hooks
  /\ _pending = <<>>
  /\ client = [check |-> <<>>, trace |-> <<>>]
  /\ logged = 0
  /\ escaped = 0
  /\ awaiting = [check |-> 0, trace |-> 0]
  /\ calls = 0
  /\ last = [callback |-> "", id |-> None]

NextCallbacks ==
  \/ IsLangChain /\ \E action \in AgentActions, run_id \in RunIds, raised \in BOOLEAN : on_agent_action(action, run_id, raised)
  \/ IsLangChain /\ \E output \in Outputs, parent_run_id \in RunIds \cup {None}, raised \in BOOLEAN : on_tool_end(output, parent_run_id, raised)
  \/ IsLangChain /\ \E parent_run_id \in RunIds \cup {None} : on_tool_error("boom", parent_run_id)
  \/ IsLangChain /\ \E finish \in Finishes, run_id \in {1}, raised \in BOOLEAN : on_agent_finish(finish, run_id, raised)
  \/ IsLangChain /\ \E verb \in {"check", "trace"}, raised \in BOOLEAN : Resume(verb, raised)
  \/ IsCrew /\ \E task_output \in TaskOutputs, raised \in BOOLEAN : on_task_complete(task_output, raised)
  \/ IsCrew /\ \E agent_output \in AgentOutputs, raised \in BOOLEAN : on_step(agent_output, raised)

SpecCallbacks == InitCallbacks /\ [][NextCallbacks]_vars

\* ----------------------------------------------------------- QDRANT_URL
\* The stores in drift and any value of QDRANT_URL.
InitUrl ==
  /\ decisions = DecisionsWith({1, 2, 3})
  /\ qdrant = {Point(id) : id \in {2, 3, 4}}
  /\ search_outbox = PendingDeletes(0)
  /\ silent = {}
  /\ QDRANT_URL \in Urls
  /\ orphans = <<0, 0, 0>>
  /\ agent_events = 0
  /\ NotStarted
  /\ NotConstructed

SpecUrl == InitUrl /\ [][Next]_vars

\* ------------------------------------------------------ stores that hang
Stores == {"primary", "index"}

\* The stores in drift; each of the two answers calls or accepts them and
\* never answers.
InitSilent ==
  /\ decisions = DecisionsWith({1, 2, 3})
  /\ qdrant = {Point(id) : id \in {2, 3, 4}}
  /\ search_outbox = PendingDeletes(0)
  /\ silent \in SUBSET Stores
  /\ QDRANT_URL = DefaultUrl
  /\ orphans = <<0, 0, 0>>
  /\ agent_events = 0
  /\ NotStarted
  /\ NotConstructed

SpecSilent == InitSilent /\ [][NextGate]_vars

\* ------------------------------------------------------------- liveness
\* The periodic job: `reconcile_qdrant.py --repair` with both URLs set.
Job == "r2"
RepairJob == [repair |-> TRUE, org_id |-> NULL, database_url |-> TRUE, qdrant_url |-> TRUE]

\* The index has lost the points of the two current decisions and holds a
\* stale one; the entry of an earlier repair of decision 1 is there or not,
\* fresh or a dead letter.
InitLive ==
  /\ decisions = DecisionsWith({1, NumIds - 1})
  /\ qdrant = {Point(NumIds)}
  /\ \E old \in {EmptyBag, SetToBag({NewRow(1, OrgOf(1), "upsert", 1)}),
                  SetToBag({DeadUpsert(1)})} :
       search_outbox = PendingDeletes(0) (+) old
  /\ silent = {}
  /\ QDRANT_URL = DefaultUrl
  /\ orphans = <<0, 0, 0>>
  /\ agent_events = 0
  /\ NotStarted
  /\ NotConstructed

\* The scheduler starts the job when the run before it has ended.
JobStart == StartWith(Job, RepairJob) /\ UNCHANGED gate

\* The consumer leases the pending entry of decision id.
LiveClaim(id) ==
  /\ \E r \in rows :
       /\ r.decision_id = id
       /\ r.locked_until = NULL \/ r.locked_until <= now
       /\ r.attempts < DeadLetterCeiling
       /\ search_outbox' =
            BagOfAll(LAMBDA x : IF x = r
                                  THEN [x EXCEPT !.attempts = @ + 1,
                                                 !.locked_until = now + LeaseTime]
                                  ELSE x,
                     search_outbox)
  /\ UNCHANGED <<primary, qdrant, setting, now, steps, procs>>

\* The consumer succeeds on the leased entry of decision id.
LiveSucceed(id) ==
  /\ \E r \in rows :
       /\ r.decision_id = id
       /\ r.locked_until # NULL
       /\ qdrant' = IF r.operation = "upsert"
                      THEN qdrant \cup {[id |-> r.decision_id, org_id |-> r.org_id]}
                      ELSE {p \in qdrant : p.id # r.decision_id}
       /\ search_outbox' = search_outbox (-) SetToBag({r})
  /\ UNCHANGED <<primary, setting, now, steps, procs>>

\* The job over and over, its calls failing now and then, and the consumer.
NextLive ==
  \/ JobStart
  \/ ReadPg(Job)
  \/ ScrollPage(Job)
  \/ PrintReport(Job)
  \/ EnqueueBatch(Job)
  \/ Raise(Job)
  \/ \E id \in Ids : LiveClaim(id)
  \/ \E id \in Ids : LiveSucceed(id)

\* The continuation tokens a page can return: the id after `limit` others.
Tokens == {NULL} \cup (Ids \ (1..limit))

\* The start indexes of enqueue_repairs' batches: range(0, len, batch_size).
BatchStarts == {k \in 0..NumIds - 1 : k % batch_size = 0}

\* The scheduler starts the job again and again; the interpreter runs each
\* statement once the one before it has returned; a call to a store that is
\* made again and again is answered again and again (the SELECT, each page
\* request, each INSERT); the consumer leases a pending entry when there is
\* one and, when it holds a lease again and again, completes one.
Fairness ==
  /\ WF_vars(JobStart)
  /\ SF_vars(ReadPg(Job))
  /\ \A o \in Tokens : SF_vars(ScrollPage(Job) /\ offset[Job] = o)
  /\ WF_vars(PrintReport(Job))
  /\ \A k \in BatchStarts : SF_vars(EnqueueBatch(Job) /\ i[Job] = k)
  /\ WF_vars(\E id \in Ids : LiveClaim(id))
  /\ SF_vars(\E id \in Ids : LiveSucceed(id))

SpecLive == InitLive /\ [][NextLive]_vars /\ Fairness

\* ------------------------------------------------------------ properties
\* Everything a reconciler process holds; only its own steps change it.
proc(r) == <<pc[r], args[r], base_url[r], pg_map[r], ids[r], offset[r], missing_in_qdrant[r],
             extra_in_qdrant[r], i[r], stdout[r], stderr[r], returncode[r], psql[r], settled[r]>>

Last(s) == s[Len(s)]

Keys(box) == {Key(x) : x \in BagToSet(box)}

\* The rows of box whose (decision_id, operation) is k, with their copies.
RowsOf(box, k) == {x \in BagToSet(box) : Key(x) = k}
Copies(box, k) ==
  LET S == RowsOf(box, k)
  IN  IF S = {} THEN 0 ELSE BagCardinality([x \in S |-> CopiesIn(x, box)])

\* C1: the step that prints the report turns the two id sets the run read,
\* P (the keys of pg_map) and I (the scrolled ids), into the counts |P|, |I|,
\* |P \ I| and |I \ P|; the lists it keeps for the repair are P \ I and I \ P
\* without repetition, disjoint from each other and from P \cap I.
C1_DriftIsSetDifference ==
  [][\A r \in Runs :
       (pc[r] = "report" /\ pc'[r] # "report") =>
         LET P   == DOMAIN pg_map[r]
             I   == ids[r]
             rep == Last(stdout'[r])
         IN  /\ rep.kind = "json"
             /\ rep.postgres_current_count = Cardinality(P)
             /\ rep.qdrant_count = Cardinality(I)
             /\ rep.missing_in_qdrant = Cardinality(P \ I)
             /\ rep.extra_in_qdrant = Cardinality(I \ P)
             /\ pc'[r] = "enqueue" =>
                  LET missing == missing_in_qdrant'[r]
                      extra   == extra_in_qdrant'[r]
                  IN  /\ Range(missing) = P \ I
                      /\ Range(extra) = I \ P
                      /\ Len(missing) = Cardinality(P \ I)
                      /\ Len(extra) = Cardinality(I \ P)
                      /\ Range(missing) \cap Range(extra) = {}
                      /\ Range(missing) \cap (P \cap I) = {}
                      /\ Range(extra) \cap (P \cap I) = {}
    ]_vars

\* A run has reported drift in both directions beside common ids.
C1_Witness ==
  \E r \in Runs :
    /\ stdout[r] # <<>>
    /\ stdout[r][1].missing_in_qdrant >= 1
    /\ stdout[r][1].extra_in_qdrant >= 1
    /\ stdout[r][1].postgres_current_count > stdout[r][1].missing_in_qdrant
    /\ pc[r] = "enqueue"

\* C2: a reconciler step never changes the index or the decisions; it changes
\* the outbox only while enqueueing, and then only `upsert` rows of ids of its
\* missing list: every other (decision_id, operation) keeps its rows, no id of
\* the extra list and no `delete` row is touched.  With P = {A, B, C} and
\* I = {B, C, D} the one statement, unless it fails, leaves one row for A,
\* nothing else changed, and ends the run.
C2_OnlyMissingEnqueued ==
  [][\/ /\ \A r \in Runs : pc[r] # "enqueue"
        /\ search_outbox' = search_outbox /\ qdrant' = qdrant /\ decisions' = decisions
     \/ \A r \in Runs :
       proc(r)' # proc(r) =>
         /\ qdrant' = qdrant
         /\ decisions' = decisions
         /\ pc[r] # "enqueue" => search_outbox' = search_outbox
         /\ pc[r] = "enqueue" =>
              LET missing == Range(missing_in_qdrant[r])
                  touched == {k \in Keys(search_outbox) \cup Keys(search_outbox') :
                                RowsOf(search_outbox', k) # RowsOf(search_outbox, k)
                                \/ Copies(search_outbox', k) # Copies(search_outbox, k)}
              IN  /\ \A k \in touched : k[1] \in missing /\ k[2] = "upsert"
                  /\ \A k \in touched : k[1] \notin Range(extra_in_qdrant[r])
                  /\ (DOMAIN pg_map[r] = {1, 2, 3} /\ ids[r] = {2, 3, 4}) =>
                       \/ returncode'[r] = 1 /\ stdout'[r] = stdout[r]
                             /\ search_outbox' = search_outbox   \* the write failed
                       \/ /\ Keys(search_outbox') = Keys(search_outbox) \cup {<<1, "upsert">>}
                          /\ Copies(search_outbox', <<1, "upsert">>) = 1
                          /\ \A op \in {"upsert", "delete"} :
                               RowsOf(search_outbox', <<4, op>>) = RowsOf(search_outbox, <<4, op>>)
                          /\ pc'[r] = "done"
                          /\ stdout'[r] = Append(stdout[r], QueuedLine(1))
    ]_vars

\* The scenario's --repair run has ended: A enqueued, D's point and pending
\* delete still there.
C2_Witness ==
  \E r \in Runs :
    /\ pc[r] = "done"
    /\ args[r].repair
    /\ Len(stdout[r]) = 2
    /\ stdout[r][1].postgres_current_count = 3
    /\ stdout[r][1].qdrant_count = 3
    /\ stdout[r][1].missing_in_qdrant = 1
    /\ stdout[r][1].extra_in_qdrant = 1
    /\ Copies(search_outbox, <<1, "upsert">>) = 1
    /\ Copies(search_outbox, <<4, "delete">>) = 1
    /\ Point(4) \in qdrant
    /\ Point(1) \notin qdrant

\* The ids of the batch the next statement of run r writes.
Batch(r) == Slice(missing_in_qdrant[r], i[r], i[r] + batch_size)

\* Run r's step is an INSERT statement that succeeded.
Wrote(r) == pc[r] = "enqueue" /\ psql'[r] # psql[r]

\* The ids whose row the statements of run r have updated.
UpdatedIds(r) == {x.decision_id : x \in psql[r].updated}

\* C3: when a statement enqueues an id that already has an (id, upsert) row,
\* there is afterwards still one such row, of the same org, with created_at =
\* now, attempts = 0 and no lease; and running the same statement again, any
\* number of times, leaves the table as the first run left it.
C3_IdempotentEnqueue ==
  [][\A r \in Runs :
       Wrote(r) =>
         /\ \A id \in Range(Batch(r)) :
              LET old == RowsOf(search_outbox, <<id, "upsert">>)
                  new == RowsOf(search_outbox', <<id, "upsert">>)
              IN  old # {} =>
                    /\ Copies(search_outbox', <<id, "upsert">>) = 1
                    /\ \A x \in new :
                         /\ x.created_at = now
                         /\ x.attempts = 0
                         /\ x.locked_until = NULL
                         /\ \E o \in old : x.org_id = o.org_id
         /\ LET vs    == Values(Batch(r), pg_map[r])
                twice == InsertAll(search_outbox', vs, now)
            IN  /\ twice = search_outbox'
                /\ InsertAll(twice, vs, now) = search_outbox'
    ]_vars

\* A run has refreshed an entry that the consumer had leased at an earlier
\* time: it is now one row without lease, attempts 0, created now.
C3_Witness ==
  \E r \in Runs : \E x \in psql[r].updated :
    /\ x.attempts >= 1
    /\ x.locked_until # NULL
    /\ x.created_at < now
    /\ \E y \in rows :
         /\ Key(y) = Key(x)
         /\ y.attempts = 0
         /\ y.locked_until = NULL
         /\ y.created_at = now

\* C4: however overlapping --repair runs, consumer claims and consumer
\* removals interleave, the outbox never holds two rows with the same
\* (decision_id, operation); and when both runs have enqueued everything and
\* the consumer has removed nothing, each missing id has exactly one entry.
C4_OneEntryPerKey ==
  /\ \A k \in Keys(search_outbox) : Copies(search_outbox, k) = 1
  /\ ((\A r \in Runs : pc[r] = "done" /\ Len(stdout[r]) = 2) /\ steps = 0) =>
       \A id \in 1..(NumIds - 1) : Copies(search_outbox, <<id, "upsert">>) = 1

\* Both runs are enqueueing, and one has hit the row the other inserted,
\* while the consumer holds a lease.
C4_Witness ==
  /\ psql["r1"].inserted \cap UpdatedIds("r2") # {}
  /\ \E x \in rows : x.locked_until # NULL
  /\ \E r \in Runs : pc[r] = "enqueue"

\* C5: a reconciler step removes no outbox row, and a statement leaves every
\* row alone whose key is not (id, upsert) for an id of the batch it writes:
\* rows of other ids and `delete` rows are the same before and after.
C5_EnqueueFrame ==
  [][\/ search_outbox' = search_outbox
     \/ \A r \in Runs :
       proc(r)' # proc(r) =>
         \/ search_outbox' = search_outbox
         \/ /\ \A k \in Keys(search_outbox) :
                 Copies(search_outbox', k) >= Copies(search_outbox, k)
            /\ BagCardinality(search_outbox') >= BagCardinality(search_outbox)
            /\ \A k \in Keys(search_outbox) \cup Keys(search_outbox') :
                 (pc[r] = "enqueue" /\ k[1] \in Range(Batch(r)) /\ k[2] = "upsert")
                 \/ /\ RowsOf(search_outbox', k) = RowsOf(search_outbox, k)
                    /\ Copies(search_outbox', k) = Copies(search_outbox, k)
    ]_vars

\* A run has written a batch beside a leased `delete` row and beside an
\* `upsert` row of an id that is not in what it wrote.
C5_Witness ==
  \E r \in Runs :
    /\ psql[r].updated # {}
    /\ \E x \in rows : x.operation = "delete" /\ x.attempts >= 1
    /\ \E y \in rows :
         /\ y.operation = "upsert"
         /\ y.attempts >= 1
         /\ y.decision_id \notin psql[r].inserted \cup UpdatedIds(r)

\* The report a finished or enqueueing run has printed.
Printed(r) == stdout[r][1]

\* C6: a step of a reconciler process that was started without --repair, a
\* step of the gate and a step of the reconciler the gate runs as its child
\* leave decisions, qdrant and search_outbox as they are; the gate starts its
\* child without --repair.
C6_ReadOnly ==
  [][/\ \A r \in Procs :
          (proc(r)' # proc(r) /\ ~args'[r].repair) => UNCHANGED stores
     /\ gate' # gate =>
          /\ UNCHANGED stores
          /\ pc'[Child] # pc[Child] => ~args'[Child].repair
     /\ proc(Child)' # proc(Child) => UNCHANGED stores
    ]_vars

\* A gate run has ended with a failed report: its child found drift in both
\* directions and exited 1, a dead letter is over the maximum, and the index
\* still lacks the missing id, which nobody has enqueued.
C6_Witness ==
  /\ gate_pc = "done"
  /\ gate_returncode = 1
  /\ gate_stdout # <<>>
  /\ ~gate_stdout[1].checks[2].passed
  /\ gate_stdout[1].checks[5].name = "qdrant_reconciliation"
  /\ "skipped" \notin DOMAIN gate_stdout[1].checks[5]
  /\ gate_stdout[1].checks[5].details.returncode = 1
  /\ stdout[Child] # <<>>
  /\ stdout[Child][1].missing_in_qdrant >= 1
  /\ stdout[Child][1].extra_in_qdrant >= 1
  /\ Point(1) \notin qdrant
  /\ \A x \in rows : x.operation = "delete" /\ x.attempts >= DeadLetterCeiling

\* C7: a run that printed its report and ended, ends with status 1 whenever
\* it reported missing ids and had no --repair, and whenever it reported extra
\* ids, also with --repair and a successful enqueue (as for P = {A, B, C},
\* I = {B, C, D}).
C7_DriftExitsOne ==
  \A r \in Runs :
    (pc[r] = "done" /\ stdout[r] # <<>>) =>
      /\ (Printed(r).missing_in_qdrant > 0 /\ ~args[r].repair) => returncode[r] = 1
      /\ Printed(r).extra_in_qdrant > 0 => returncode[r] = 1

\* The scenario's --repair run has enqueued A, printed queued_repairs=1 and
\* ended with status 1.
C7_Witness ==
  \E r \in Runs :
    /\ pc[r] = "done"
    /\ args[r].repair
    /\ stdout[r] = <<[kind |-> "json", postgres_current_count |-> 3, qdrant_count |-> 3,
                      missing_in_qdrant |-> 1, extra_in_qdrant |-> 1, org_scope |-> NULL],
                     QueuedLine(1)>>
    /\ psql[r].inserted = {1}
    /\ returncode[r] = 1

\* C8 as stated: status 0 only when the run found neither missing nor extra.
C8_ZeroOnlyWithoutDrift ==
  \A r \in Runs :
    (pc[r] = "done" /\ returncode[r] = 0) =>
      /\ stdout[r] # <<>>
      /\ Printed(r).missing_in_qdrant = 0
      /\ Printed(r).extra_in_qdrant = 0

\* C8, amended: status 0 only when the run found no extra ids and either no
\* missing ids or, with --repair, enqueued all of them and printed
\* queued_repairs with their number.
C8_ZeroOnlyWithoutUnrepairedDrift ==
  \A r \in Runs :
    (pc[r] = "done" /\ returncode[r] = 0) =>
      /\ stdout[r] # <<>>
      /\ Printed(r).extra_in_qdrant = 0
      /\ \/ Printed(r).missing_in_qdrant = 0 /\ Len(stdout[r]) = 1
         \/ /\ Printed(r).missing_in_qdrant > 0
            /\ args[r].repair
            /\ stdout[r] = <<Printed(r), QueuedLine(Printed(r).missing_in_qdrant)>>
            /\ Cardinality(psql[r].inserted \cup UpdatedIds(r)) = Printed(r).missing_in_qdrant

\* A --repair run found missing ids, enqueued them and ended with status 0.
C8_Witness ==
  \E r \in Runs :
    /\ pc[r] = "done"
    /\ returncode[r] = 0
    /\ Len(stdout[r]) = 2
    /\ Printed(r).missing_in_qdrant >= 1

\* C9 as stated: at the step that completes a --repair run every id of its
\* missing list has exactly one upsert entry with attempts 0 and no lease.
C9_AllFreshAtCompletion ==
  [][\A r \in Runs :
       (pc[r] = "enqueue" /\ stdout'[r] # stdout[r]) =>
         \A id \in Range(missing_in_qdrant[r]) :
           /\ Copies(search_outbox', <<id, "upsert">>) = 1
           /\ \A x \in RowsOf(search_outbox', <<id, "upsert">>) :
                x.attempts = 0 /\ x.locked_until = NULL
    ]_vars

\* C9, amended: when a batch statement commits, every id of that batch has
\* exactly one upsert entry with attempts 0 and no lease; when the run
\* completes, every id of its missing list has at most one upsert entry (the
\* consumer may have leased or removed those of earlier batches), the
\* statements of the run have inserted or refreshed each missing id once, and
\* queued_repairs is their number, |missing|.
C9_FreshPerBatchCountAtCompletion ==
  [][\A r \in Runs :
       /\ Wrote(r) =>
            \A id \in Range(Batch(r)) :
              /\ Copies(search_outbox', <<id, "upsert">>) = 1
              /\ \A x \in RowsOf(search_outbox', <<id, "upsert">>) :
                   x.attempts = 0 /\ x.locked_until = NULL
       /\ (pc[r] = "enqueue" /\ stdout'[r] # stdout[r]) =>
            /\ \A id \in Range(missing_in_qdrant[r]) :
                 Copies(search_outbox', <<id, "upsert">>) <= 1
            /\ psql'[r].inserted \cup UpdatedIds(r)' = Range(missing_in_qdrant[r])
            /\ psql'[r].inserted \cap UpdatedIds(r)' = {}
            /\ Last(stdout'[r]) =
                 QueuedLine(Cardinality(psql'[r].inserted) + Cardinality(UpdatedIds(r)'))
            /\ Last(stdout'[r]).n = Len(missing_in_qdrant[r])
    ]_vars

\* A run has completed after two batches, some ids inserted and some
\* refreshed, while the consumer holds the lease of an entry it wrote.
C9_Witness ==
  \E r \in Runs :
    /\ pc[r] = "done"
    /\ Len(stdout[r]) = 2
    /\ stdout[r][2].n > batch_size
    /\ psql[r].inserted # {}
    /\ psql[r].updated # {}
    /\ \E x \in rows :
         /\ x.decision_id \in psql[r].inserted
         /\ x.operation = "upsert"
         /\ x.attempts >= 1

ReportFields ==
  {"kind", "postgres_current_count", "qdrant_count", "missing_in_qdrant",
   "extra_in_qdrant", "org_scope"}

\* C10: nothing is printed before both reads are done; then exactly one
\* JSON object with the five fields, org_scope being --org-id; a second and
\* last line queued_repairs=<n> is printed only with --repair and a missing
\* count n >= 1, after every missing id has been written; and with --repair
\* and missing ids the line is absent only if a statement failed.
C10_Output ==
  \A r \in Runs :
    /\ pc[r] \in {"idle", "pg", "scroll", "report"} => stdout[r] = <<>>
    /\ pc[r] = "enqueue" => Len(stdout[r]) = 1
    /\ Len(stdout[r]) <= 2
    /\ stdout[r] # <<>> =>
         /\ DOMAIN Printed(r) = ReportFields
         /\ Printed(r).kind = "json"
         /\ Printed(r).org_scope = args[r].org_id
    /\ Len(stdout[r]) = 2 =>
         /\ pc[r] = "done"
         /\ args[r].repair
         /\ Printed(r).missing_in_qdrant >= 1
         /\ stdout[r][2] = QueuedLine(Printed(r).missing_in_qdrant)
         /\ Cardinality(psql[r].inserted \cup UpdatedIds(r)) = Printed(r).missing_in_qdrant
    /\ (Len(stdout[r]) = 1 /\ args[r].repair /\ Printed(r).missing_in_qdrant >= 1) =>
         \/ pc[r] = "enqueue"
         \/ /\ pc[r] = "done"
            /\ returncode[r] = 1
            /\ Cardinality(psql[r].inserted \cup UpdatedIds(r)) < Printed(r).missing_in_qdrant
    /\ (Len(stdout[r]) = 1 /\ pc[r] = "enqueue") =>
         args[r].repair /\ Printed(r).missing_in_qdrant >= 1

\* A --repair run has printed the report and, after two statements, the
\* queued_repairs line.
C10_Witness ==
  \E r \in Runs :
    /\ pc[r] = "done"
    /\ Len(stdout[r]) = 2
    /\ stdout[r][2] = QueuedLine(3)
    /\ Printed(r).missing_in_qdrant = 3

\* `if not database_url` and `if not qdrant_url` both pass.
HasUrls(a) == a.database_url /\ a.qdrant_url

\* C11: a reconciler process started without DATABASE_URL or without
\* QDRANT_URL ends in its first step with status 2, having printed nothing,
\* read nothing and written nothing; a reconciler that is at a read or a
\* write has both URLs, and status 2 is the status of exactly the runs that
\* lack one. A gate started without DATABASE_URL ends in its first step with
\* status 2, no report and no child started; a gate that is at a check has it.
C11_FailFast ==
  [][/\ \A r \in Procs :
          /\ (pc[r] \in {"idle", "done"} /\ proc(r)' # proc(r) /\ ~HasUrls(args'[r])) =>
               /\ pc'[r] = "done"
               /\ returncode'[r] = 2
               /\ stdout'[r] = <<>>
               /\ psql'[r] = NoEffect
               /\ pg_map'[r] = <<>> /\ ids'[r] = {}
               /\ UNCHANGED stores
          /\ pc[r] \in {"pg", "scroll", "report", "enqueue"} => HasUrls(args[r])
          /\ pc[r] = "done" => (returncode[r] = 2 <=> ~HasUrls(args[r]))
     /\ (gate_pc \in {"idle", "done"} /\ gate' # gate /\ ~env'.database_url) =>
          /\ gate_pc' = "done"
          /\ gate_returncode' = 2
          /\ gate_stdout' = <<>>
          /\ gate_stderr' = <<"error: DATABASE_URL is required">>
          /\ UNCHANGED <<stores, recon>>
     /\ gate_pc \notin {"idle", "done"} => env.database_url
    ]_vars

\* Over stores in drift a --repair job without QDRANT_URL and a gate without
\* DATABASE_URL have both ended with status 2; nothing is enqueued and the
\* gate's child has never run.
C11_Witness ==
  /\ pc["r2"] = "done"
  /\ returncode["r2"] = 2
  /\ args["r2"].database_url /\ ~args["r2"].qdrant_url
  /\ gate_pc = "done"
  /\ gate_returncode = 2
  /\ ~env.database_url
  /\ pc[Child] = "idle"
  /\ Point(1) \notin qdrant
  /\ \A x \in rows : x.operation = "delete"

\* The points of the index a run with --org-id org is to enumerate.
InScope(org) == {p.id : p \in {q \in qdrant : org # NULL => q.org_id = org}}

\* C12: every request of the enumeration returns at most `limit` points and
\* none before the continuation token of the page before it; the ids of the
\* page are added to those of the pages before; the loop goes on with the
\* page's token while there is one, each token beyond the last, and is left
\* with the first page that has none. While the index does not change, what
\* the loop returns is every id in scope.
C12_Pagination ==
  [][\A r \in Runs :
       (pc[r] = "scroll" /\ proc(r)' # proc(r) /\ pc'[r] # "done") =>
         LET page == ScrollResult(args[r].org_id, offset[r])
         IN  /\ Cardinality(page.points) <= limit
             /\ offset[r] # NULL => \A pid \in page.points : pid >= offset[r]
             /\ ids'[r] = ids[r] \cup page.points
             /\ offset'[r] = page.next_page_offset
             /\ page.next_page_offset # NULL =>
                  /\ pc'[r] = "scroll"
                  /\ offset[r] # NULL => offset'[r] > offset[r]
                  /\ \A pid \in ids'[r] : pid < offset'[r] \/ pid \notin InScope(args[r].org_id)
             /\ page.next_page_offset = NULL =>
                  /\ pc'[r] = "report"
                  /\ steps = 0 => ids'[r] = InScope(args[r].org_id)
    ]_vars

\* A run has left the loop after a second page, with more ids than one page
\* holds.
C12_Witness ==
  \E r \in Runs :
    /\ pc[r] = "report"
    /\ Cardinality(ids[r]) > limit
    /\ ids[r] = InScope(args[r].org_id)

\* C13: a reconciler that ends at the primary read or at a page request ends
\* with status 1, having printed nothing and written nothing, and the ids it
\* had read are dropped; the report is printed by the step after the last
\* page only, when the primary read has returned and the enumeration has
\* ended with a page without token, and a statement is issued only after it.
C13_FailedReadAborts ==
  [][\/ \A r \in Runs :
          pc[r] \in {"idle", "done"} /\ stdout'[r] = stdout[r] /\ psql'[r] = psql[r]
     \/ \A r \in Runs :
       /\ (pc[r] \in {"pg", "scroll"} /\ pc'[r] = "done") =>
            /\ returncode'[r] = 1
            /\ stdout'[r] = <<>>
            /\ psql'[r] = NoEffect
            /\ missing_in_qdrant'[r] = <<>> /\ extra_in_qdrant'[r] = <<>>
            /\ pg_map'[r] = <<>> /\ ids'[r] = {}
            /\ UNCHANGED stores
       /\ pc[r] \in {"pg", "scroll"} =>
            /\ stdout[r] = <<>>
            /\ psql[r] = NoEffect
            /\ missing_in_qdrant[r] = <<>> /\ extra_in_qdrant[r] = <<>>
       /\ pc[r] = "pg" => pc'[r] \in {"pg", "scroll", "done"}
       /\ pc[r] = "scroll" => pc'[r] \in {"scroll", "report", "done"}
       /\ (pc[r] = "scroll" /\ pc'[r] = "report") =>
            ScrollResult(args[r].org_id, offset[r]).next_page_offset = NULL
       /\ pc[r] = "report" => offset[r] = NULL
       /\ stdout'[r] # stdout[r] /\ stdout'[r] # <<>> => pc[r] \in {"report", "enqueue"}
       /\ psql'[r] # psql[r] /\ psql'[r] # NoEffect => pc[r] = "enqueue"
    ]_vars

\* A --repair run over stores in which id 1 is missing has ended with status
\* 1 and no output; nothing is enqueued.
C13_Witness ==
  \E r \in Runs :
    /\ pc[r] = "done"
    /\ returncode[r] = 1
    /\ stdout[r] = <<>>
    /\ args[r].repair
    /\ 1 \in DOMAIN pg_current_decisions(args[r].org_id)
    /\ Point(1) \notin qdrant
    /\ Point(NumIds) \in qdrant
    /\ \A x \in rows : x.operation = "delete"

\* c.get("skipped") of a check of the report.
Skipped(c) == "skipped" \in DOMAIN c /\ c.skipped

\* The checks of the report the gate has printed.
Reported == gate_stdout[1].checks

\* C14: in a report all_passed is true exactly if every check that is not
\* skipped has passed = true, and the same checks with any one non-skipped
\* check set to failing give all_passed = false.
C14_Aggregation ==
  gate_stdout # <<>> =>
    /\ gate_stdout[1].all_passed <=>
         \A k \in 1..Len(Reported) : Skipped(Reported[k]) \/ Reported[k].passed
    /\ \A k \in 1..Len(Reported) :
         ~Skipped(Reported[k]) =>
           ~Summary([Reported EXCEPT ![k].passed = FALSE]).all_passed

\* A report whose only failing check is the dead-letter threshold, beside a
\* skipped check, has all_passed = false.
C14_Witness ==
  /\ gate_stdout # <<>>
  /\ ~gate_stdout[1].all_passed
  /\ \A k \in 1..Len(Reported) : Reported[k].passed <=> k # 2
  /\ \E k \in 1..Len(Reported) : Skipped(Reported[k])

\* C15: a gate that has ended has status 0, 1 or 2: 0 exactly if it printed
\* a report with all_passed = true, 1 exactly if it printed a report with a
\* check that has passed = false, 2 exactly if it printed no report, and then
\* it printed an error to stderr and either lacks DATABASE_URL or ended
\* inside a check; before it ends it has printed nothing.
C15_GateExitCode ==
  /\ gate_pc = "done" =>
       /\ gate_returncode \in {0, 1, 2}
       /\ gate_returncode = 0 <=> (gate_stdout # <<>> /\ gate_stdout[1].all_passed)
       /\ gate_returncode = 1 <=>
            (gate_stdout # <<>> /\ \E k \in 1..Len(Reported) : ~Reported[k].passed)
       /\ gate_returncode = 2 <=> gate_stdout = <<>>
       /\ gate_returncode = 2 => gate_stderr # <<>>
       /\ gate_returncode # 2 => gate_stderr = <<>>
  /\ gate_pc \notin {"idle", "done"} => gate_stdout = <<>> /\ gate_returncode = RUNNING

\* A gate with DATABASE_URL has ended inside a check with status 2 and no
\* report, over stores in which a check would have failed.
C15_Witness ==
  /\ gate_pc = "done"
  /\ gate_returncode = 2
  /\ env.database_url
  /\ gate_stdout = <<>>
  /\ gate_stderr = <<"error">>
  /\ orphans # <<0, 0, 0>>

\* C16: the report has strict_retention_window skipped exactly without
\* STRICT_RETENTION_CHECK and qdrant_reconciliation skipped exactly without
\* QDRANT_URL, each then with passed = true; all_passed is that of the checks
\* that are not skipped. The step that skips the retention check cannot fail
\* as a query can, and the step that skips the drift check starts no child.
C16_Skipped ==
  [][/\ gate_stdout # <<>> =>
          /\ Len(Reported) = 5
          /\ Skipped(Reported[4]) <=> ~env.strict_retention
          /\ Skipped(Reported[5]) <=> ~env.qdrant_url
          /\ \A k \in 1..5 : Skipped(Reported[k]) => Reported[k].passed /\ k \in {4, 5}
          /\ gate_stdout[1].all_passed <=>
               \A k \in {j \in 1..5 : ~Skipped(Reported[j])} : Reported[k].passed
     /\ (gate_pc = "retention" /\ ~env.strict_retention /\ gate' # gate) =>
          /\ gate_pc' = "qdrant"
          /\ Skipped(checks'[4]) /\ checks'[4].passed
          /\ checks'[4].name = "strict_retention_window"
          /\ UNCHANGED <<stores, recon>>
     /\ (gate_pc = "qdrant" /\ ~env.qdrant_url /\ gate' # gate) =>
          /\ gate_pc' = "summary"
          /\ Skipped(checks'[5]) /\ checks'[5].passed
          /\ checks'[5].name = "qdrant_reconciliation"
          /\ UNCHANGED <<stores, recon>>
     /\ (gate_pc = "qdrant" /\ env.qdrant_url /\ gate' # gate) => pc'[Child] = "pg"
    ]_vars

\* A report with the drift check skipped over stores in drift and old events
\* counted: all_passed is false for the retention window alone.
C16_Witness ==
  /\ gate_stdout # <<>>
  /\ Skipped(Reported[5])
  /\ ~Skipped(Reported[4])
  /\ ~Reported[4].passed
  /\ \A k \in {1, 2, 3} : Reported[k].passed
  /\ pc[Child] = "idle"
  /\ Point(NumIds) \in qdrant

\* The entries of the outbox at or above the dead-letter ceiling, and the
\* others.
DeadRows == {x \in rows : x.attempts >= DeadLetterCeiling}
LiveRows == {x \in rows : x.attempts < DeadLetterCeiling}

\* C17: the dead-letter check reports the number of outbox entries with
\* attempts at or above the ceiling and the configured maximum, and passes
\* exactly if the number is at most the maximum: equal passes, one above
\* fails. A report with maximum 0 and dead_letters = 2 has the check failed,
\* all_passed = false, and the gate has status 1.
C17_DeadLetterThreshold ==
  [][/\ (gate_pc = "dead_letter" /\ gate_pc' = "oldest") =>
          /\ checks'[2].name = "dead_letter_threshold"
          /\ checks'[2].details.dead_letters = CountRows(search_outbox, DeadRows)
          /\ checks'[2].details.max_allowed = env.max_dead_letters
          /\ checks'[2].passed <=> CountRows(search_outbox, DeadRows) <= env.max_dead_letters
     /\ gate_stdout # <<>> =>
          LET c == Reported[2]
          IN  /\ c.details.max_allowed = env.max_dead_letters
              /\ c.passed <=> c.details.dead_letters <= c.details.max_allowed
              /\ c.details.dead_letters = c.details.max_allowed => c.passed
              /\ c.details.dead_letters = c.details.max_allowed + 1 => ~c.passed
              /\ (c.details.max_allowed = 0 /\ c.details.dead_letters = 2) =>
                   /\ ~c.passed
                   /\ ~gate_stdout[1].all_passed
                   /\ gate_returncode = 1
    ]_vars

\* With maximum 0 and two entries at attempts = 10 the gate has reported
\* dead_letters = 2 and ended with status 1.
C17_Witness ==
  /\ gate_stdout # <<>>
  /\ env.max_dead_letters = 0
  /\ CountRows(search_outbox, {x \in rows : x.attempts = 10}) = 2
  /\ Reported[2].details.dead_letters = 2
  /\ ~Reported[2].passed
  /\ ~gate_stdout[1].all_passed
  /\ gate_returncode = 1

\* C18: the staleness check reports the age of the oldest entry below the
\* ceiling, 0 when there is none, and passes exactly if it is at most the
\* configured maximum; entries at or above the ceiling do not enter the age,
\* and at the snapshot of either query every entry falls under exactly one
\* of the two: the dead-letter count and the number of entries the age is
\* taken over add up to the table.
C18_OldestAge ==
  [][/\ (gate_pc = "oldest" /\ gate_pc' = "retention") =>
          LET c   == checks'[3]
              age == IF LiveRows = {} THEN 0
                     ELSE now - SetMin({x.created_at : x \in LiveRows})
          IN  /\ c.name = "outbox_oldest_age"
              /\ c.details.oldest_pending_seconds = age
              /\ c.details.max_allowed_seconds = env.max_outbox_oldest_seconds
              /\ c.passed <=> age <= env.max_outbox_oldest_seconds
              /\ LiveRows = {} => (c.details.oldest_pending_seconds = 0 /\ c.passed)
              /\ \A x \in LiveRows : now - x.created_at <= age
              /\ LiveRows # {} => \E x \in LiveRows : now - x.created_at = age
     /\ gate_pc \in {"dead_letter", "oldest"} =>
          /\ DeadRows \cap LiveRows = {}
          /\ DeadRows \cup LiveRows = rows
          /\ DeadLetters + CountRows(search_outbox, LiveRows) = BagCardinality(search_outbox)
          /\ DeadLetters = CountRows(search_outbox, DeadRows)
     /\ gate_stdout # <<>> =>
          (Reported[3].passed <=>
             Reported[3].details.oldest_pending_seconds <= env.max_outbox_oldest_seconds)
    ]_vars

\* The gate has reported age 1 beside two dead letters: when it asked, the
\* one live entry, enqueued at time 2, was one tick old and the dead letters,
\* created at time 1, two.
C18_Witness ==
  /\ gate_stdout # <<>>
  /\ Reported[3].details.oldest_pending_seconds = 1
  /\ Reported[2].details.dead_letters = 2
  /\ now = 3
  /\ DeadRows # {} /\ \A x \in DeadRows : x.created_at = 1
  /\ LiveRows # {} /\ \A y \in LiveRows : y.created_at = 2

\* C19: the orphan check reports the three counts of the query and passes
\* exactly if their sum is zero, in every environment; a report over a store
\* with an orphan has the check failed, all_passed = false and status 1.
C19_OrphanIntegrity ==
  /\ checks # <<>> =>
       /\ checks[1].name = "orphan_integrity"
       /\ checks[1].passed <=> orphans[1] + orphans[2] + orphans[3] = 0
  /\ gate_stdout # <<>> =>
       LET c == Reported[1]
       IN  /\ c.name = "orphan_integrity"
           /\ c.details.decisions_without_run = orphans[1]
           /\ c.details.alternatives_without_decision = orphans[2]
           /\ c.details.evidence_without_decision = orphans[3]
           /\ c.passed <=> orphans[1] + orphans[2] + orphans[3] = 0
           /\ orphans # <<0, 0, 0>> =>
                /\ ~c.passed
                /\ ~gate_stdout[1].all_passed
                /\ gate_returncode = 1

\* A report over a store whose one orphan is an alternative, every other
\* check passed or skipped: the gate has status 1.
C19_Witness ==
  /\ gate_stdout # <<>>
  /\ orphans[1] = 0 /\ orphans[2] + orphans[3] = 1
  /\ ~Reported[1].passed
  /\ \A k \in 2..5 : Reported[k].passed
  /\ gate_returncode = 1

\* C20: in a report with the drift check not skipped, the check has passed
\* exactly if the child reconciler ended with status 0 and reported
\* missing_in_qdrant = 0 and extra_in_qdrant = 0; so it has passed whenever
\* the child found the two id sets equal.
C20_DriftCheckPasses ==
  (gate_stdout # <<>> /\ ~Skipped(Reported[5])) =>
    (Reported[5].passed <=>
       /\ returncode[Child] = 0
       /\ stdout[Child] # <<>>
       /\ Printed(Child).missing_in_qdrant = 0
       /\ Printed(Child).extra_in_qdrant = 0)

\* Over stores in step the child has reported no drift and ended with status
\* 0; the gate has read no payload from its output and reports the check as
\* failed, with status 1.
C20_Witness ==
  /\ gate_stdout # <<>>
  /\ ~Skipped(Reported[5])
  /\ returncode[Child] = 0
  /\ Printed(Child).postgres_current_count = 2
  /\ Printed(Child).qdrant_count = 2
  /\ Printed(Child).missing_in_qdrant = 0
  /\ Printed(Child).extra_in_qdrant = 0
  /\ Reported[5].details.returncode = 0
  /\ Reported[5].details.missing_in_qdrant = None
  /\ Reported[5].details.extra_in_qdrant = None
  /\ ~Reported[5].passed
  /\ \A k \in 1..4 : Reported[k].passed
  /\ gate_returncode = 1

\* The names of the battery, in the order main() appends them.
CheckNames ==
  <<"orphan_integrity", "dead_letter_threshold", "outbox_oldest_age",
    "strict_retention_window", "qdrant_reconciliation">>

\* The position of main() once it holds n checks.
PcAfter(n) == <<"dead_letter", "oldest", "retention", "qdrant", "summary">>[n]

\* C21: a report holds five checks, named orphan_integrity,
\* dead_letter_threshold, outbox_oldest_age, strict_retention_window and
\* qdrant_reconciliation in this order, each with a name, a verdict and
\* details; a step of the gate that adds a check adds the next name of the
\* list and goes on to the check after it, whatever the verdict of the check
\* it added and of those before it.
C21_AllChecksReported ==
  [][/\ gate_stdout' # <<>> =>
          /\ Len(gate_stdout') = 1
          /\ Len(gate_stdout'[1].checks) = 5
          /\ \A k \in 1..5 :
               /\ gate_stdout'[1].checks[k].name = CheckNames[k]
               /\ {"name", "passed", "details"} \subseteq DOMAIN gate_stdout'[1].checks[k]
               /\ gate_stdout'[1].checks[k].passed \in BOOLEAN
     /\ (checks' # checks /\ checks' # <<>>) =>
          /\ Len(checks') = Len(checks) + 1
          /\ SubSeq(checks', 1, Len(checks)) = checks
          /\ Last(checks').name = CheckNames[Len(checks')]
          /\ gate_pc' = PcAfter(Len(checks'))
     /\ (gate_pc = "summary" /\ gate_pc' = "done") =>
          /\ gate_stdout' = <<Summary(checks)>>
          /\ Len(checks) = 5
    ]_vars

\* The gate has printed a report whose first two checks failed and whose
\* last three checks ran: the retention check and the drift check are there
\* with a verdict of their own.
C21_Witness ==
  /\ gate_stdout # <<>>
  /\ Len(Reported) = 5
  /\ ~Reported[1].passed
  /\ ~Reported[2].passed
  /\ Reported[3].passed
  /\ ~Skipped(Reported[4]) /\ ~Reported[4].passed
  /\ ~Skipped(Reported[5])
  /\ Reported[5].details.returncode = 1
  /\ gate_returncode = 1

\* The gate's own run_psql or int() has raised in the current run.
GateQueryFailed == gate_stderr = <<"error">>

\* The SELECT of the child reconciler has failed during the drift check of
\* the run that printed the report: the check holds the child's stderr.
ChildQueryFailed ==
  /\ gate_stdout # <<>>
  /\ ~Skipped(Reported[5])
  /\ Reported[5].details.stderr = <<"RuntimeError: psql failed">>

\* C22: a gate run in which a query of the primary store has failed, in any
\* of its checks, has ended with status 2 and only an error on stderr; it has
\* printed no report. Stated for the queries the gate issues itself and for
\* the one its child issues during the drift check.
C22_PrimaryFailureAborts ==
  /\ GateQueryFailed =>
       /\ gate_pc = "done"
       /\ gate_returncode = 2
       /\ gate_stdout = <<>>
  /\ ~ChildQueryFailed

\* The four queries of the gate have answered, the read of the decisions by
\* the child has failed: the gate has printed a report with the drift check
\* failed and has ended with status 1.
C22_Witness ==
  /\ ChildQueryFailed
  /\ gate_stderr = <<>>
  /\ \A k \in 1..4 : Reported[k].passed
  /\ ~Reported[5].passed
  /\ Reported[5].details.returncode = 1
  /\ Reported[5].details.missing_in_qdrant = None
  /\ ~gate_stdout[1].all_passed
  /\ gate_returncode = 1

\* A page request of the child reconciler has failed at transport level
\* (urlopen raised URLError or timed out) during the drift check of the run
\* that printed the report.
ChildScrollFailed ==
  /\ gate_stdout # <<>>
  /\ ~Skipped(Reported[5])
  /\ Reported[5].details.stderr = <<"urllib.error.URLError">>

\* C23: a call to the index that fails at transport level while the child
\* reconciler enumerates the points makes the gate run an aborted run: the
\* gate never prints a report that holds the failure as a failed drift
\* check, and whenever the child has ended on such a failure the gate, once
\* it has ended, has status 2.
C23_IndexFailureAborts ==
  /\ ~ChildScrollFailed
  /\ (gate_pc = "done" /\ env.qdrant_url /\ env.database_url
        /\ stderr[Child] = <<"urllib.error.URLError">>) => gate_returncode = 2

\* The four queries of the gate have answered and the index has not: the
\* gate has printed a report with the drift check failed on the child's
\* status 1 and has ended with status 1, nothing on its own stderr.
C23_Witness ==
  /\ ChildScrollFailed
  /\ stderr[Child] = <<"urllib.error.URLError">>
  /\ returncode[Child] = 1
  /\ stdout[Child] = <<>>
  /\ gate_stderr = <<>>
  /\ \A k \in 1..4 : Reported[k].passed
  /\ ~Reported[5].passed
  /\ Reported[5].details.returncode = 1
  /\ Reported[5].details.extra_in_qdrant = None
  /\ gate_returncode = 1

\* C24: a run reads, reports and repairs as follows every id X that, when
\* the process started, was current and derivable in the primary and had its
\* point in the index (as it has once the consumer has processed the repair
\* enqueued for it): the run has X among the decisions and among the points
\* it read, its report counts X neither as missing nor as extra, the lists it
\* keeps do not hold X, and no statement of a --repair run inserts or
\* updates an outbox entry of X.
C24_Convergence ==
  [][\A r \in Runs :
       /\ (pc[r] = "report" /\ pc'[r] # "report") =>
            LET rep == Last(stdout'[r])
            IN  /\ settled[r] \subseteq DOMAIN pg_map[r]
                /\ settled[r] \subseteq ids[r]
                /\ rep.missing_in_qdrant <= rep.postgres_current_count - Cardinality(settled[r])
                /\ rep.extra_in_qdrant <= rep.qdrant_count - Cardinality(settled[r])
                /\ settled[r] \cap Range(missing_in_qdrant'[r]) = {}
                /\ settled[r] \cap Range(extra_in_qdrant'[r]) = {}
       /\ (pc[r] = "enqueue" /\ proc(r)' # proc(r)) =>
            /\ settled[r] \cap Range(missing_in_qdrant[r]) = {}
            /\ settled[r] \cap (psql'[r].inserted \cup {x.decision_id : x \in psql'[r].updated}) = {}
            /\ \A X \in settled[r] :
                 /\ RowsOf(search_outbox', <<X, "upsert">>) = RowsOf(search_outbox, <<X, "upsert">>)
                 /\ Copies(search_outbox', <<X, "upsert">>) = Copies(search_outbox, <<X, "upsert">>)
    ]_vars

\* Id 1 is in no initial index: its point is there because the consumer has
\* processed the repair a first --repair run enqueued, and the entry is gone.
\* A second --repair run has started after that, has reported another id as
\* missing and is about to enqueue it; id 1 is not in its list.
C24_Witness ==
  \E r \in Runs :
    /\ pc[r] = "enqueue"
    /\ args[r].repair
    /\ 1 \in settled[r]
    /\ Point(1) \in qdrant
    /\ 1 \in DOMAIN pg_map[r] /\ 1 \in ids[r]
    /\ Printed(r).missing_in_qdrant = 1
    /\ missing_in_qdrant[r] = <<3>>
    /\ \A x \in rows : x.decision_id # 1

\* The decisions that are current and derivable.
Current == DOMAIN pg_current_decisions(NULL)

\* Exactly one point of the index has the id X.
Represented(X) == Cardinality({p \in qdrant : p.id = X}) = 1

\* The job has ended having printed a report.
Completed == pc[Job] = "done" /\ stdout[Job] # <<>>

\* C25: with the periodic --repair job and a fair consumer, from some moment
\* on every current, derivable decision has exactly one point with its id in
\* the index; from some moment on every report the job has printed has
\* missing_in_qdrant = 0, and the job goes on printing such reports.
C25_EventualConvergence ==
  /\ <>[](\A X \in Current : Represented(X))
  /\ <>[](Completed => Printed(Job).missing_in_qdrant = 0)
  /\ []<>(Completed /\ Printed(Job).missing_in_qdrant = 0)

\* The repairs the job enqueued have been processed by the consumer: every
\* current decision has its point, no upsert is pending, and a later run
\* has read both decisions and their points and reported nothing missing.
C25_Witness ==
  /\ Current = {1, NumIds - 1}
  /\ \A X \in Current : Represented(X)
  /\ \A x \in rows : x.operation # "upsert"
  /\ Completed
  /\ Printed(Job).missing_in_qdrant = 0
  /\ Printed(Job).postgres_current_count = 2
  /\ Printed(Job).qdrant_count >= 2

\* A step of the reconciler process r.
Step(r) == ReadPg(r) \/ ScrollPage(r) \/ PrintReport(r) \/ EnqueueBatch(r) \/ Raise(r)

\* The process has started and has not ended.
Running(r) == pc[r] \notin {"idle", "done"}

\* C26: a reconciler process that has not ended can take a step, and so can
\* a gate that has not ended, or the child it waits for, whichever store
\* does not answer: no run is left without a step to its exit code.
C26_NeverBlocked ==
  /\ \A r \in Procs : Running(r) => ENABLED Step(r)
  /\ gate_pc \notin {"idle", "done"} =>
       \/ ENABLED Gate
       \/ gate_pc = "wait" /\ Running(Child) /\ ENABLED Step(Child)

\* The primary accepts the connection and never answers: the standalone run
\* waits in its SELECT, the gate waits in its first query, neither has an
\* exit status, and no step of either is possible.
C26_Witness ==
  /\ "primary" \in silent
  /\ pc[Job] = "pg" /\ returncode[Job] = RUNNING
  /\ gate_pc = "orphan" /\ gate_returncode = RUNNING
  /\ ~ENABLED Step(Job)
  /\ ~ENABLED Gate

\* The list s is strictly ascending.
Ascending(s) == \A k \in 1..Len(s) - 1 : s[k] < s[k + 1]

\* C27: two runs with the same --org-id that have read the same decisions
\* and the same point ids hold the same missing list and the same extra
\* list, have printed the same report, and enqueue in the same order: at
\* the same batch index their batches and VALUES lists are equal. The lists
\* of every run are ascending and are the two differences of what it read.
C27_Deterministic ==
  /\ \A r \in Runs :
       pc[r] = "enqueue" =>
         /\ Ascending(missing_in_qdrant[r]) /\ Ascending(extra_in_qdrant[r])
         /\ Range(missing_in_qdrant[r]) = DOMAIN pg_map[r] \ ids[r]
         /\ Range(extra_in_qdrant[r]) = ids[r] \ DOMAIN pg_map[r]
  /\ \A r, q \in Runs :
       (/\ pc[r] = "enqueue" /\ pc[q] = "enqueue"
        /\ args[r].org_id = args[q].org_id
        /\ DOMAIN pg_map[r] = DOMAIN pg_map[q]
        /\ ids[r] = ids[q]) =>
         /\ pg_map[r] = pg_map[q]
         /\ missing_in_qdrant[r] = missing_in_qdrant[q]
         /\ extra_in_qdrant[r] = extra_in_qdrant[q]
         /\ Printed(r) = Printed(q)
         /\ i[r] = i[q] =>
              /\ Batch(r) = Batch(q)
              /\ Values(Batch(r), pg_map[r]) = Values(Batch(q), pg_map[q])

\* Two runs are about to enqueue, having read the same three decisions and
\* the same stale point at different moments: the consumer has leased the
\* pending delete between their reports.
C27_Witness ==
  /\ pc["r1"] = "enqueue" /\ pc["r2"] = "enqueue"
  /\ DOMAIN pg_map["r1"] = 1..NumIds - 1 /\ DOMAIN pg_map["r2"] = 1..NumIds - 1
  /\ ids["r1"] = {NumIds} /\ ids["r2"] = {NumIds}
  /\ Len(missing_in_qdrant["r1"]) = NumIds - 1
  /\ Printed("r1") = Printed("r2")
  /\ steps = 1

\* A run that got past the two presence checks of main().
PastUrlChecks(r) == pc[r] # "idle" /\ args[r].database_url /\ args[r].qdrant_url

\* The run ended on the ValueError of qdrant_rest_base: nothing read, nothing
\* written, nothing printed.
Rejected(r) ==
  /\ pc[r] = "done"
  /\ returncode[r] = 1
  /\ base_url[r] = <<>>
  /\ stderr[r] = <<"ValueError: invalid QDRANT_URL">>
  /\ stdout[r] = <<>>

\* C28: the index endpoint is normalised to the REST base URL: port 6334 and
\* no port become 6333, any other port is kept, and a URL without scheme or
\* without host is rejected with an error before any store is contacted.
C28_RestBase ==
  \A r \in Procs :
    PastUrlChecks(r) =>
      IF QDRANT_URL.scheme = "" \/ QDRANT_URL.hostname = ""
        THEN Rejected(r)
        ELSE base_url[r] =
               <<[scheme |-> QDRANT_URL.scheme, host |-> QDRANT_URL.hostname,
                  port |-> IF QDRANT_URL.port \in {None, GrpcPort} THEN RestPort
                           ELSE QDRANT_URL.port]>>

\* "http://:6334" has no host and is accepted: the run has read the primary
\* store and stands before a scroll of "http://:6333".
C28_Witness ==
  /\ QDRANT_URL = Url("http", "", GrpcPort)
  /\ PastUrlChecks("r1")
  /\ base_url["r1"] = <<[scheme |-> "http", host |-> "", port |-> RestPort]>>
  /\ pc["r1"] = "scroll"
  /\ pg_map["r1"] # <<>>

\* LangChain has just invoked this callback.
Called(callback) == calls' = calls + 1 /\ last'.callback = callback

\* The entries of the pending-action map other than `key` stay as they are.
OthersKept(key) ==
  \A k \in DOMAIN _pending \ {key} : k \in DOMAIN _pending' /\ _pending'[k] = _pending[k]

\* A tool trace made of this action and this output.
BuiltFrom(req, action, output) ==
  /\ req.outcome.used_tool = <<action.tool>>
  /\ req.outcome.text.s = output.s
  /\ req.metadata # <<>>
  /\ req.metadata[1].tool = action.tool
  /\ req.metadata[1].tool_input.s = action.tool_input.s
  /\ IF action.log.len > 0
       THEN req.reasoning # <<>> /\ req.reasoning[1].s = action.log.s
       ELSE req.reasoning = <<>>

\* C29: with tool tracing enabled, in the sync and in the async handler,
\* on_agent_action(run_id = X) registers its action under X and callbacks
\* for other run ids leave it there, so that the on_tool_end(parent_run_id
\* = X) that follows records exactly one trace, built from that action, and
\* takes the action out; on_tool_end with no parent_run_id or with one
\* that has no pending action records no trace.
C29_OneTracePerToolUse ==
  [][handler.trace_tool_use =>
       /\ Called("on_agent_action") =>
            /\ last'.id \in DOMAIN _pending'
            /\ _pending'[last'.id] = last'.arg
            /\ OthersKept(last'.id)
            /\ client'.trace = client.trace
       /\ Called("on_tool_end") =>
            IF last'.id # None /\ last'.id \in DOMAIN _pending
              THEN /\ Len(client'.trace) = Len(client.trace) + 1
                   /\ SubSeq(client'.trace, 1, Len(client.trace)) = client.trace
                   /\ BuiltFrom(client'.trace[Len(client'.trace)], _pending[last'.id], last'.arg)
                   /\ last'.id \notin DOMAIN _pending'
                   /\ OthersKept(last'.id)
              ELSE /\ client'.trace = client.trace
                   /\ _pending' = _pending
       /\ ~Called("on_agent_action") /\ ~Called("on_tool_end") /\ ~Called("on_tool_error") =>
            _pending' = _pending]_vars

\* The async handler with tracing on: the actions of run 1 and of run 2
\* were registered, both coroutines are still suspended in their check, and
\* the tool of run 1 has ended: one trace, of run 1's action, and run 2's
\* action still pending.
C29_Witness ==
  /\ handler.class = "AsyncAkashiCallbackHandler"
  /\ handler.trace_tool_use
  /\ awaiting.check = 2
  /\ Len(client.check) = 2
  /\ client.check[1].tool = "calculator"
  /\ client.check[2].tool = "search"
  /\ last.callback = "on_tool_end"
  /\ last.id = 1
  /\ Len(client.trace) = 1
  /\ client.trace[1].outcome.used_tool = <<"calculator">>
  /\ DOMAIN _pending = {2}
  /\ _pending[2].tool = "search"

\* C30: for every configuration of the handler flags, after on_tool_end or
\* on_tool_error was called with parent_run_id = X, X is not a key of the
\* pending-action map.
C30_PendingCleaned ==
  (last.callback \in {"on_tool_end", "on_tool_error"} /\ last.id # None) =>
    last.id \notin DOMAIN _pending

\* Tool tracing off: the action of run 1 was registered, its tool has
\* ended, and the action is still in the map.
C30_Witness ==
  /\ ~handler.trace_tool_use
  /\ last.callback = "on_tool_end"
  /\ last.id = 1
  /\ 1 \in DOMAIN _pending
  /\ client.trace = <<>>

\* The callback LangChain or CrewAI has just invoked is one that, by its
\* flag and its arguments, has a call of the client to make.
HasCheckToMake ==
  \/ IsLangChain /\ last'.callback = "on_agent_action" /\ handler.check_before_action
  \/ IsCrew /\ last'.callback = "on_step" /\ handler.check_before_step /\ last'.arg.tool # <<>>

HasTraceToMake ==
  \/ IsLangChain /\ last'.callback = "on_agent_finish" /\ handler.trace_final_answer
  \/ IsLangChain /\ last'.callback = "on_tool_end" /\ handler.trace_tool_use
       /\ last'.id \in DOMAIN _pending
  \/ IsCrew /\ last'.callback = "on_task_complete" /\ handler.trace_task_output

\* C31: an exception raised by client.check or client.trace never leaves a
\* callback of the LangChain handlers or of the CrewAI callbacks, and after
\* such a failure a later callback still issues its check or its trace.
C31_FailuresSwallowed ==
  [][/\ escaped' = 0
     /\ (logged > 0 /\ calls' = calls + 1) =>
          /\ HasCheckToMake => Len(client'.check) = Len(client.check) + 1
          /\ HasTraceToMake => Len(client'.trace) = Len(client.trace) + 1]_vars

\* The sync handler: the check of on_agent_action has raised, the trace of
\* the on_tool_end after it was made all the same and has raised too;
\* both are in the log, neither left its callback.
C31_Witness ==
  /\ handler.class = "AkashiCallbackHandler"
  /\ last.callback = "on_tool_end"
  /\ Len(client.check) = 1
  /\ Len(client.trace) = 1
  /\ logged = 2
  /\ escaped = 0

\* The names of the calls a frame has made, in order.
CallsOf(f) == [k \in 1..Len(f.events) |-> f.events[k].call]

IsPrefix(s, t) == Len(s) <= Len(t) /\ s = SubSeq(t, 1, Len(s))

\* C32: run_with_akashi calls client.check, then crew.kickoff, then
\* client.trace, in that order, and returns what kickoff returned; a check
\* that raises still leads to kickoff, a trace that raises leaves the returned
\* result as it is, and an exception of kickoff leaves run_with_akashi with
\* no call of client.trace.
C32_RunOrder ==
  [][frame'.fn = "run_with_akashi" =>
       LET e == frame'.events
       IN /\ IsPrefix(CallsOf(frame'), <<"check", "kickoff", "trace">>)
          /\ Len(client'.check) > Len(client.check) => frame.pc = "check" /\ Len(e) = 1
          /\ Len(client'.trace) > Len(client.trace) => frame.pc = "trace" /\ Len(e) = 3 /\ ~e[2].raised
          /\ Len(e) = 0 => frame'.pc = "check"
          /\ Len(e) = 1 => frame'.pc = "kickoff"
          /\ Len(e) = 2 => /\ e[2].arg = frame'.arg
                           /\ frame'.pc = IF e[2].raised THEN "raised" ELSE "trace"
                           /\ e[2].raised => client'.trace = client.trace
          /\ Len(e) = 3 => /\ frame'.pc = "returned"
                           /\ frame'.returned = e[2].value
                           /\ e[2].value # <<>>
          /\ frame'.pc # "returned" => frame'.returned = <<>>]_vars

\* A second run returned kickoff's result although its check and its trace
\* raised; the first run ended with kickoff's exception and without a trace.
C32_Witness ==
  /\ frame.fn = "run_with_akashi"
  /\ frame.pc = "returned"
  /\ calls = 2
  /\ Len(frame.events) = 3
  /\ frame.events[1].raised
  /\ frame.events[3].raised
  /\ frame.returned = <<Text("crew result", 11)>>
  /\ Len(client.check) = 2
  /\ Len(client.trace) = 1

\* C33: wrap of either middleware calls client.check(decision_type), then
\* the wrapped function with what the check returned as precedents, then
\* client.trace(result.to_trace()), in that order, and a wrap that returns
\* returns what the function returned; when the check raises the function is
\* not invoked, and when the function raises client.trace is not called.
C33_WrapOrder ==
  [][frame'.fn \in Wraps =>
       LET e == frame'.events
       IN /\ IsPrefix(CallsOf(frame'), <<"check", "func", "trace">>)
          /\ Len(client'.check) > Len(client.check) =>
                /\ frame.pc = "check" /\ Len(e) = 1
                /\ client'.check = Append(client.check, [decision_type |-> frame'.arg, query |-> <<>>])
          /\ Len(client'.trace) > Len(client.trace) =>
                /\ frame.pc = "trace" /\ Len(e) = 3
                /\ client'.trace = Append(client.trace, e[2].value[1].to_trace)
          /\ Len(e) = 0 => frame'.pc = "check"
          /\ Len(e) = 1 => /\ e[1].arg = frame'.arg
                           /\ frame'.pc = IF e[1].raised THEN "raised" ELSE "func"
          /\ Len(e) = 2 => /\ ~e[1].raised
                           /\ e[2].arg = e[1].value
                           /\ frame'.pc = IF e[2].raised THEN "raised" ELSE "trace"
                           /\ e[2].raised => client'.trace = client.trace
          /\ Len(e) = 3 => /\ ~e[1].raised /\ ~e[2].raised
                           /\ e[3].arg = e[2].value[1].to_trace
                           /\ frame'.pc = IF e[3].raised THEN "raised" ELSE "returned"
          /\ frame'.pc = "returned" => Len(e) = 3 /\ frame'.returned = e[2].value
          /\ frame'.pc # "returned" => frame'.returned = <<>>]_vars

\* The coroutine wrap returned the function's result after a check, the
\* function and a trace; an earlier wrap stopped at its check or in its
\* function, without a trace.
C33_Witness ==
  /\ frame.fn = "AkashiMiddleware.wrap"
  /\ frame.pc = "returned"
  /\ calls = 2
  /\ CallsOf(frame) = <<"check", "func", "trace">>
  /\ frame.events[2].arg = <<[has_precedent |-> TRUE]>>
  /\ frame.returned = frame.events[2].value
  /\ frame.returned # <<>>
  /\ Len(client.check) = 2
  /\ Len(client.trace) = 1

\* The coroutines that called get_token while no valid token was held.
CalledInvalid == {t \in Coroutines : tasks[t].pc # "idle" /\ ~tasks[t].entry_valid}

\* Two calls of get_token that were in progress at the same time.
Concurrent(t, u) == t # u /\ u \in tasks[t].with

\* Of concurrent calls made without a valid token at most one issued a
\* refresh request, and the others returned the token that request stored.
OneRefreshForAll ==
  \A t \in CalledInvalid, u \in CalledInvalid :
    Concurrent(t, u) =>
      /\ ~(tasks[t].posted /\ tasks[u].posted)
      /\ (tasks[t].posted /\ tasks[u].pc = "returned") => tasks[u].returned = t

\* A call made while the held token was valid issued no refresh request
\* and returned a token.
ValidCallsDoNotRefresh ==
  \A t \in Coroutines :
    tasks[t].entry_valid => ~tasks[t].posted /\ tasks[t].pc = "returned" /\ tasks[t].returned # 0

\* Every refresh request that was answered stored the token now held, and
\* that token is valid (so it has been valid ever since it was stored).
RefreshesHeld ==
  /\ _is_valid
  /\ \A t \in Coroutines :
       (tasks[t].posted /\ tasks[t].pc # "post") => tasks[t].pc = "returned" /\ tasks[t].returned = tm._token

ToolTraces == SelectSeq(client.trace, LAMBDA req : req.outcome.used_tool # <<>>)

OtherTraces == SelectSeq(client.trace, LAMBDA req : req.outcome.used_tool = <<>>)

\* C35: a callback issues a check exactly when it is on_agent_action with
\* check_before_action, or on_step with check_before_step and an output that
\* carries a tool; it issues a trace exactly when it is on_tool_end for a
\* pending action with trace_tool_use, on_agent_finish with
\* trace_final_answer, or on_task_complete with trace_task_output.  So with
\* a flag off its call is never issued, and the other flags' calls are.
C35_FlagsSuppressOwnCall ==
  [][calls' = calls + 1 =>
       /\ Len(client'.check) = Len(client.check) + (IF HasCheckToMake THEN 1 ELSE 0)
       /\ Len(client'.trace) = Len(client.trace) + (IF HasTraceToMake THEN 1 ELSE 0)
       /\ (IsLangChain /\ ~handler.check_before_action) => client'.check = <<>>
       /\ (IsCrew /\ ~handler.check_before_step) => client'.check = <<>>
       /\ IsCrew => \A k \in 1..Len(client'.check) : client'.check[k].tool \in {"search", "calculator"}
       /\ (IsLangChain /\ ~handler.trace_tool_use) => ToolTraces' = <<>>
       /\ (IsLangChain /\ ~handler.trace_final_answer) => OtherTraces' = <<>>
       /\ (IsCrew /\ ~handler.trace_task_output) => client'.trace = <<>>]_vars

\* With only trace_tool_use on, an action, its tool end and a finish gave
\* one trace, that of the tool use, and no check.
C35_Witness ==
  /\ handler.class = "AkashiCallbackHandler"
  /\ ~handler.check_before_action
  /\ handler.trace_tool_use
  /\ ~handler.trace_final_answer
  /\ calls = 3
  /\ last.callback = "on_agent_finish"
  /\ client.check = <<>>
  /\ Len(ToolTraces) = 1
  /\ OtherTraces = <<>>

\* The ids for which the statements of run r have written a row so far.
WrittenIds(r) == psql[r].inserted \cup UpdatedIds(r)

\* C36: every statement of enqueue_repairs writes a batch that is not empty
\* and has at most batch_size ids (500 in the script), namely the next ids of
\* the missing list in list order; the ids before it are exactly those
\* already written, none of its own ids is, and after the last statement
\* every missing id has been written once; a run whose missing list is empty
\* never gets to a statement.
C36_Batches ==
  [][\A r \in Runs :
       \/ pc[r] \notin {"report", "enqueue"}
       \/ /\ pc'[r] = "enqueue" => missing_in_qdrant'[r] # <<>>
          /\ Wrote(r) =>
               LET missing == missing_in_qdrant[r]
                   batch   == Batch(r)
                   upto    == Min(i[r] + batch_size, Len(missing))
               IN  /\ batch # <<>>
                   /\ Len(batch) <= batch_size
                   /\ i[r] % batch_size = 0
                   /\ batch = [k \in 1..(upto - i[r]) |-> missing[i[r] + k]]
                   /\ WrittenIds(r) = {missing[k] : k \in 1..i[r]}
                   /\ WrittenIds(r)' = {missing[k] : k \in 1..upto}
                   /\ Cardinality(WrittenIds(r)') = upto
                   /\ IF upto < Len(missing)
                        THEN pc'[r] = "enqueue" /\ i'[r] = upto /\ missing_in_qdrant'[r] = missing
                        ELSE pc'[r] = "done" /\ stdout'[r][Len(stdout'[r])] = QueuedLine(Len(missing))
    ]_vars

\* A run wrote three missing ids in two statements, of two ids and of one.
C36_Witness ==
  \E r \in Runs :
    /\ pc[r] = "done"
    /\ returncode[r] = 0
    /\ Len(stdout[r]) = 2
    /\ stdout[r][2] = QueuedLine(batch_size + 1)
    /\ WrittenIds(r) = {1, 2, 3}

\* The rows of decisions and the points of the index that belong to scope
\* org, every one when the run has no --org-id.
RowsInScope(org) ==
  {d \in decisions : d.valid_to = NULL /\ d.embedding /\ (org = NULL \/ d.org_id = org)}

PointsInScope(org) == {p \in qdrant : org = NULL \/ p.org_id = org}

\* C37: the primary read of a run returns the current, derivable decisions
\* of its --org-id, each with its org_id, and those of every organization
\* without --org-id; a page adds only points of that scope; missing and
\* extra are made of the ids so read; and a row that a statement newly
\* inserts is for an id of its batch and carries the org_id the primary read
\* returned for it, which is the run's --org-id when it has one.
C37_Scoped ==
  [][\A r \in Runs :
       \/ proc(r)' = proc(r)
       \/ LET org == args[r].org_id
          IN  /\ (pc[r] = "pg" /\ pc'[r] = "scroll") =>
                   /\ DOMAIN pg_map'[r] = {d.id : d \in RowsInScope(org)}
                   /\ \A d \in RowsInScope(org) : pg_map'[r][d.id] = d.org_id
              /\ (pc[r] = "scroll" /\ pc'[r] # "done") =>
                   /\ ids'[r] \ ids[r] \subseteq {p.id : p \in PointsInScope(org)}
                   /\ org # NULL => \A id \in ids'[r] : OrgOf(id) = org
              /\ (pc[r] = "report" /\ pc'[r] = "enqueue") =>
                   /\ Range(missing_in_qdrant'[r]) = DOMAIN pg_map[r] \ ids[r]
                   /\ Range(extra_in_qdrant'[r]) = ids[r] \ DOMAIN pg_map[r]
                   /\ org # NULL => \A id \in Range(missing_in_qdrant'[r]) : pg_map[r][id] = org
              /\ Wrote(r) =>
                   \A id \in psql'[r].inserted \ psql[r].inserted :
                     /\ id \in Range(Batch(r))
                     /\ RowsOf(search_outbox, <<id, "upsert">>) = {}
                     /\ \A x \in RowsOf(search_outbox', <<id, "upsert">>) :
                          /\ x.org_id = pg_map[r][id]
                          /\ org # NULL => x.org_id = org
    ]_vars

\* A run with --org-id 1 and --repair has enqueued ids of organization 1
\* and ended, while a decision of organization 2 has neither a point nor an
\* outbox entry.
C37_Witness ==
  \E r \in Runs :
    /\ pc[r] = "done"
    /\ args[r].org_id = 1
    /\ psql[r].inserted # {}
    /\ \A id \in psql[r].inserted : \E x \in rows : Key(x) = <<id, "upsert">> /\ x.org_id = 1
    /\ \E d \in RowsInScope(2) :
         /\ Point(d.id) \notin qdrant
         /\ RowsOf(search_outbox, <<d.id, "upsert">>) = {}

\* C38: a step of enqueue_repairs either writes its whole batch in one
\* statement or, when the statement fails, writes nothing: the outbox is as
\* the earlier batches left it, the loop is left, nothing more is printed
\* after the report, a traceback goes to stderr and the status is 1.  A run
\* that ends with statements made and no queued_repairs line has status 1.
C38_AtomicPerBatch ==
  [][\A r \in Runs :
       \/ pc[r] # "enqueue"
       \/ proc(r)' = proc(r)
       \/ IF psql'[r] # psql[r]
            THEN /\ search_outbox' = InsertAll(search_outbox, Values(Batch(r), pg_map[r]), now)
                 /\ WrittenIds(r)' = WrittenIds(r) \cup Range(Batch(r))
                 /\ \A id \in Range(Batch(r)) : Copies(search_outbox', <<id, "upsert">>) = 1
            ELSE /\ search_outbox' = search_outbox
                 /\ pc'[r] = "done"
                 /\ returncode'[r] = 1
                 /\ stdout'[r] = stdout[r]
                 /\ Len(stdout[r]) = 1
                 /\ stderr'[r] = <<"RuntimeError: psql failed">>
                 /\ WrittenIds(r)' = WrittenIds(r)
                 /\ Cardinality(WrittenIds(r)) = i[r]
                 /\ i[r] < Len(missing_in_qdrant[r])
    ]_vars

\* A run with three missing ids wrote its first batch and failed at the
\* second: the rows of the first batch are in the outbox, the third id has
\* none, no queued_repairs line, status 1.
C38_Witness ==
  \E r \in Runs :
    /\ pc[r] = "done"
    /\ returncode[r] = 1
    /\ stderr[r] = <<"RuntimeError: psql failed">>
    /\ Len(stdout[r]) = 1
    /\ stdout[r][1].missing_in_qdrant = batch_size + 1
    /\ WrittenIds(r) = 1..batch_size
    /\ \A id \in 1..batch_size : Copies(search_outbox, <<id, "upsert">>) = 1
    /\ Copies(search_outbox, <<batch_size + 1, "upsert">>) = 0

\* A step of the reconciler, of the gate or of the gate's child.
CoreStep == gate' # gate \/ \E r \in Procs : proc(r)' # proc(r)

\* The dead letters that the statement of run r refreshes.
Revived(r) == {x \in DeadRows : x.operation = "upsert" /\ x.decision_id \in Range(Batch(r))}

\* C39: after a step of the core every entry has the attempts it had, or
\* attempts = 0; an entry whose attempts changed is an upsert entry of the
\* batch just written, with created_at = now and no lease.  A statement that
\* refreshes dead letters lowers the dead-letter count by their number and
\* leaves each of them below the ceiling with age 0; the gate's dead-letter
\* check then counts only the entries still at the ceiling and its staleness
\* check reports an age no smaller than that of any entry below it.
C39_AttemptsReset ==
  [][/\ CoreStep =>
          \A y \in rows' :
            \/ \E x \in rows : Key(x) = Key(y) /\ x.attempts = y.attempts
            \/ /\ y.attempts = 0
               /\ y.created_at = now
               /\ y.locked_until = NULL
               /\ y.operation = "upsert"
               /\ \E r \in Procs : Wrote(r) /\ y.decision_id \in Range(Batch(r))
     /\ \A r \in Procs :
          Wrote(r) =>
            /\ DeadLetters' = DeadLetters - CountRows(search_outbox, Revived(r))
            /\ \A x \in Revived(r) :
                 /\ RowsOf(search_outbox', Key(x)) \subseteq LiveRows'
                 /\ \A y \in RowsOf(search_outbox', Key(x)) : y.attempts = 0 /\ now - y.created_at = 0
                 /\ Copies(search_outbox', Key(x)) = 1
            /\ Revived(r) # {} => OldestSeconds' = IF LiveRows = {} THEN 0 ELSE OldestSeconds
     /\ (gate_pc = "dead_letter" /\ gate_pc' = "oldest") =>
          checks'[2].details.dead_letters = BagCardinality(search_outbox) - CountRows(search_outbox, LiveRows)
     /\ (gate_pc = "oldest" /\ gate_pc' = "retention") =>
          /\ \A x \in LiveRows : checks'[3].details.oldest_pending_seconds >= now - x.created_at
          /\ LiveRows = {} => checks'[3].details.oldest_pending_seconds = 0
    ]_vars

\* The entry of decision 1, a dead letter created at time 1, was refreshed
\* at time 2; the gate, run at time 3, has reported no dead letter and an
\* oldest pending age of 1.
C39_Witness ==
  /\ gate_stdout # <<>>
  /\ now = 3
  /\ rows = {NewRow(1, OrgOf(1), "upsert", 2)}
  /\ Reported[2].details.dead_letters = 0
  /\ Reported[3].details.oldest_pending_seconds = 1
  /\ \E r \in Runs : pc[r] = "done" /\ psql[r].updated = {DeadUpsert(1)}

====
